---- MODULE Spec2Model ----
(***************************************************************************)
(* A model of pytreeclass: the frozen, dataclass-like tree objects, their  *)
(* construction protocol, attribute gating, flatten / unflatten rules,     *)
(* tree equality and leaf-wise operator dispatch.                          *)
(*                                                                         *)
(* The repository holds the code of several releases side by side:         *)
(*   tree_base.py / tree_decorator.py : the `_FROZEN`-flag release,        *)
(*   misc.py / tree_util.py / tree_op.py : the `__immutable_pytree__`      *)
(*                                       release,                          *)
(*   treeclass.py : the dataclasses-based release.                         *)
(* Each definition below names the file it is translated from.             *)
(***************************************************************************)
EXTENDS Integers, Sequences, FiniteSets, TLC

VARIABLES heap, fmap, stk, last, done, ended, ops

vars == <<heap, fmap, stk, last, done, ended, ops>>

-----------------------------------------------------------------------------
(* Bounds of the model.                                                    *)

\* objects that user code allocates (constructions and copies)
MaxObj == 2
\* objects that copies may add
MaxCopies == 2
\* nesting of initializer calls
MaxDepth == 2
\* attribute statements that take effect in one run
MaxOps == 2

-----------------------------------------------------------------------------
(* Python values.  Every value is a record of one shape so that any two    *)
(* values can be compared.                                                 *)

IntV(n) == [k |-> "int", i |-> n, s |-> <<>>]
BoolV(b) == [k |-> "bool", i |-> IF b THEN 1 ELSE 0, s |-> <<>>]
ArrV(q) == [k |-> "arr", i |-> 0, s |-> q]
TupV(q) == [k |-> "tuple", i |-> 0, s |-> q]
RefV(o) == [k |-> "ref", i |-> o, s |-> <<>>]
NoneV == [k |-> "none", i |-> 0, s |-> <<>>]
\* a string, by an index into the strings the model uses
StrV(n) == [k |-> "str", i |-> n, s |-> <<>>]
\* an instance of a class unknown to the library
ObjV == [k |-> "object", i |-> 0, s |-> <<>>]

\* tree_decorator.py: the "no default" marker of a Field
_MISSING == [k |-> "missing", i |-> 0, s |-> <<>>]

\* tree_decorator.py: the name of the per-instance frozen flag
_FROZEN == "__datalcass_frozen__"

IsRef(v) == v.k = "ref"

-----------------------------------------------------------------------------
(* Python dicts: insertion-ordered sequences of [key, val] entries.        *)

Has(d, key) == \E j \in 1..Len(d) : d[j].key = key
Idx(d, key) == CHOOSE j \in 1..Len(d) : d[j].key = key
Get(d, key) == d[Idx(d, key)].val
Put(d, key, v) ==
    IF Has(d, key) THEN [d EXCEPT ![Idx(d, key)].val = v]
    ELSE Append(d, [key |-> key, val |-> v])
Del(d, key) == SelectSeq(d, LAMBDA e : e.key # key)
KeySet(d) == {d[j].key : j \in 1..Len(d)}
\* dict.update(other): every entry of `other`, in its order
RECURSIVE Update(_, _)
Update(d, other) ==
    IF other = <<>> THEN d
    ELSE Update(Put(d, Head(other).key, Head(other).val), Tail(other))

-----------------------------------------------------------------------------
(* Classes of the `_FROZEN`-flag release.                                  *)
(*   AB  : a (no default), b = 2, user-written __init__                    *)
(*   ABP : the same fields, with a __post_init__ hook                      *)

Classes == {"AB", "ABP"}

\* tree_decorator.py Field: the name, the default and the default factory
\* (or _MISSING), whether __init__ takes the field, the metadata keys that
\* are set to True and the functions applied to a value on assignment
\* (`validators`; tree_base.py reads them as `callbacks`)
Field(name, default) ==
    [name |-> name, default |-> default, default_factory |-> _MISSING, init |-> TRUE,
     meta |-> {}, callbacks |-> <<>>]

\* a Field as the value of a class attribute
FieldV(f) == [k |-> "field", i |-> 0, s |-> <<f>>]

\* variant: no check of the two defaults
field_unchecked(default, default_factory, init, callbacks) ==
    [raised |-> "",
     val |-> FieldV([Field("", default) EXCEPT !.default_factory = default_factory,
                                               !.init = init,
                                               !.callbacks = callbacks])]

\* tree_decorator.py field(): a Field without name, or ValueError when both
\* a default and a default factory are given
field(default, default_factory, init, callbacks) ==
    IF default # _MISSING /\ default_factory # _MISSING
    THEN [raised |-> "ValueError", val |-> NoneV]
    ELSE [raised |-> "",
          val |-> FieldV([Field("", default) EXCEPT !.default_factory = default_factory,
                                                    !.init = init,
                                                    !.callbacks = callbacks])]

\* the annotated attributes of the class body, in declaration order, with
\* the value the body gives them (_MISSING for none)
ClassBody(klass) ==
    << [name |-> "a", value |-> _MISSING], [name |-> "b", value |-> IntV(2)] >>

\* variant: a name that is declared again moves to the end of the map
SetField_moves(map, f) == Append(SelectSeq(map, LAMBDA g : g.name # f.name), f)

\* field_map[name] = f on a dict: a name that is in the map keeps its
\* position, a new name goes to the end
SetField(map, f) ==
    IF \E j \in 1..Len(map) : map[j].name = f.name
    THEN [map EXCEPT ![CHOOSE j \in 1..Len(map) : map[j].name = f.name] = f]
    ELSE Append(map, f)

\* field_map.update(other)
RECURSIVE UpdateFields(_, _)
UpdateFields(map, other) ==
    IF other = <<>> THEN map ELSE UpdateFields(SetField(map, Head(other)), Tail(other))

\* tree_decorator.py _generate_field_map, the loop over reversed(cls.__mro__):
\* the field map of every base that has one is merged in, oldest base
\* first.  mro holds those field maps in that order.
RECURSIVE MroLoop(_, _)
MroLoop(map, mro) ==
    IF mro = <<>> THEN map ELSE MroLoop(UpdateFields(map, Head(mro)), Tail(mro))

\* tree_decorator.py _generate_field_map, the loop over the annotations: a
\* Field gets its name, no value gives a Field without default, a list,
\* dict or set raises TypeError with a message that says to use
\* default_factory, any other value becomes the default
RECURSIVE FieldMapLoop(_, _)
FieldMapLoop(r, body) ==
    IF body = <<>> \/ r.raised # "" THEN r
    ELSE FieldMapLoop(
             IF Head(body).value.k = "field"
             THEN [r EXCEPT !.map = SetField(@, [Head(body).value.s[1] EXCEPT
                                                    !.name = Head(body).name])]
             ELSE IF Head(body).value.k \in {"list", "dict", "set"}
             THEN [raised |-> "TypeError", map |-> <<>>, hint |-> "default_factory"]
             ELSE [r EXCEPT !.map = SetField(@, Field(Head(body).name, Head(body).value))],
             Tail(body))

\* variant: any plain value becomes the default
_generate_field_map_any_default(mro, body) ==
    [raised |-> "", hint |-> "",
     map |-> MroLoop(<<>>, mro)
                 \o [j \in 1..Len(body) |->
                        IF body[j].value.k = "field"
                        THEN [body[j].value.s[1] EXCEPT !.name = body[j].name]
                        ELSE Field(body[j].name, body[j].value)]]

\* tree_decorator.py _generate_field_map: the field maps of the bases, then
\* the annotations in declaration order
_generate_field_map(mro, body) ==
    FieldMapLoop([raised |-> "", map |-> MroLoop(<<>>, mro), hint |-> ""], body)

\* tree_base.py _init_wrapper: hasattr(type(self), _POST_INIT)
HasPostInit(klass) == klass = "ABP"

FieldNames(fm) == {fm[j].name : j \in 1..Len(fm)}

-----------------------------------------------------------------------------
(* The heap: objects by identity.  heap[o].vars is the instance __dict__    *)
(* (the per-instance override table __undeclared_fields__ of the           *)
(* `__immutable_pytree__` release is kept beside it, in heap[o].undecl,    *)
(* and the per-instance __dataclass_fields__ of the dataclasses-based      *)
(* release in heap[o].fields).                                             *)

Live == 1..Len(heap)
NewObj(klass, d) == [cls |-> klass, vars |-> d, undecl |-> <<>>, fields |-> <<>>]

\* getattr(tree, _FROZEN): the instance __dict__ shadows the class attribute
\* that _dataclass_transform sets to True (tree_base.py:257)
IsFrozen(h, o) ==
    IF Has(h[o].vars, _FROZEN) THEN Get(h[o].vars, _FROZEN).i = 1 ELSE TRUE

\* hasattr(value, _FIELD_MAP): the value is an instance of a tree class
IsTree(v) == IsRef(v)

-----------------------------------------------------------------------------
(* tree_base.py: attribute gating.  Each handler returns the heap and the  *)
(* class-level field maps it leaves behind and the error it raised ("" for *)
(* a normal return).                                                       *)

\* the functions given as callbacks: two that return a new value and the
\* validators of tree_decorator.py, range_validator(min=1) and
\* type_validator(int), which return None or raise
CallbackFns == {"inc", "double", "range_validator", "type_validator"}

\* callback(value): the value returned, or the error raised
CallCallback(callback, v) ==
    IF callback = "type_validator"
    THEN [raised |-> IF v.k \in {"int", "bool"} THEN "" ELSE "TypeError", val |-> NoneV]
    ELSE IF v.k \notin {"int", "bool", "float"} THEN [raised |-> "TypeError", val |-> NoneV]
    ELSE IF callback = "range_validator"
    THEN [raised |-> IF v.i >= 1 THEN "" ELSE "ValueError", val |-> NoneV]
    ELSE [raised |-> "",
          val |-> [k |-> IF v.k = "float" THEN "float" ELSE "int",
                   i |-> IF callback = "inc" THEN v.i + 1 ELSE 2 * v.i, s |-> <<>>]]

\* tree_base.py _setattr, the loop over the callbacks: each is called on the
\* value the one before returned; the first error leaves the loop, wrapped
\* in an error of its own type.  r holds the value so far, the error and
\* the calls made, each with its argument.
Called(callback, r, c) ==
    [raised |-> c.raised, val |-> c.val,
     calls |-> Append(r.calls, [k |-> callback, i |-> 0, s |-> <<r.val>>])]
RECURSIVE CallbackLoop(_, _)
CallbackLoop(r, callbacks) ==
    IF callbacks = <<>> \/ r.raised # "" THEN r
    ELSE CallbackLoop(Called(Head(callbacks), r, CallCallback(Head(callbacks), r.val)),
                      Tail(callbacks))

\* getattr(tree, _FIELD_MAP)[key].callbacks, no callbacks for a key that is
\* no field
CallbacksOf(fmc, key) ==
    IF key \in FieldNames(fmc)
    THEN fmc[CHOOSE j \in 1..Len(fmc) : fmc[j].name = key].callbacks
    ELSE <<>>

\* tree_base.py _setattr, after the callbacks: an error is raised again with
\* a message that names the field, else the value is stored and a
\* tree value under a new name is registered in the class field map
SetValue(h, fm, o, key, r) ==
    IF r.raised # ""
    THEN [heap |-> h, fmap |-> fm, raised |-> r.raised, calls |-> r.calls, field |-> key]
    ELSE [heap |-> [h EXCEPT ![o].vars = Put(@, key, r.val)],
          fmap |-> IF IsTree(r.val) /\ key \notin FieldNames(fm[h[o].cls])
                   THEN [fm EXCEPT ![h[o].cls] = Append(@, Field(key, _MISSING))]
                   ELSE fm,
          raised |-> "", calls |-> r.calls, field |-> ""]

\* variant: the callbacks are called last to first
_setattr_reversed(h, fm, o, key, value) ==
    IF IsFrozen(h, o)
    THEN [heap |-> h, fmap |-> fm, raised |-> "AttributeError", calls |-> <<>>, field |-> ""]
    ELSE SetValue(h, fm, o, key,
                  CallbackLoop([raised |-> "", val |-> value, calls |-> <<>>],
                               [j \in 1..Len(CallbacksOf(fm[h[o].cls], key)) |->
                                   CallbacksOf(fm[h[o].cls], key)[
                                       Len(CallbacksOf(fm[h[o].cls], key)) + 1 - j]]))

\* variant: the value is stored before the callbacks run
_setattr_store_first(h, fm, o, key, value) ==
    IF IsFrozen(h, o)
    THEN [heap |-> h, fmap |-> fm, raised |-> "AttributeError", calls |-> <<>>, field |-> ""]
    ELSE SetValue([h EXCEPT ![o].vars = Put(@, key, value)], fm, o, key,
                  CallbackLoop([raised |-> "", val |-> value, calls |-> <<>>],
                               CallbacksOf(fm[h[o].cls], key)))

\* tree_base.py _setattr.  getattr(tree, _FIELD_MAP) is the class attribute:
\* no instance of this release carries a field map of its own.
_setattr(h, fm, o, key, value) ==
    IF IsFrozen(h, o)
    THEN [heap |-> h, fmap |-> fm, raised |-> "AttributeError", calls |-> <<>>, field |-> ""]
    ELSE SetValue(h, fm, o, key,
                  CallbackLoop([raised |-> "", val |-> value, calls |-> <<>>],
                               CallbacksOf(fm[h[o].cls], key)))

\* tree_base.py _delattr: `del vars[key]` raises KeyError on an absent key
_delattr(h, fm, o, key) ==
    IF IsFrozen(h, o)
    THEN [heap |-> h, fmap |-> fm, raised |-> "AttributeError"]
    ELSE IF ~Has(h[o].vars, key)
    THEN [heap |-> h, fmap |-> fm, raised |-> "KeyError"]
    ELSE [heap |-> [h EXCEPT ![o].vars = Del(@, key)], fmap |-> fm, raised |-> ""]

-----------------------------------------------------------------------------
(* tree_base.py: construction.                                             *)

\* default_factory(): the factory is `list`; every call makes a new list,
\* an object of its own
CallFactory(h) == Append(h, NewObj("list", <<>>))

\* _new_wrapper.new_method, the loop over the class field map: a default is
\* stored as it is, a default factory is called; d is the instance
\* __dict__ so far
RECURSIVE SetDefaults(_, _, _)
SetDefaults(h, d, fmc) ==
    IF fmc = <<>> THEN [heap |-> h, vars |-> d]
    ELSE IF Head(fmc).default # _MISSING
    THEN SetDefaults(h, Put(d, Head(fmc).name, Head(fmc).default), Tail(fmc))
    ELSE IF Head(fmc).default_factory # _MISSING
    THEN SetDefaults(CallFactory(h), Put(d, Head(fmc).name, RefV(Len(h) + 1)), Tail(fmc))
    ELSE SetDefaults(h, d, Tail(fmc))

\* new_func(klass) with the __dict__ the loop left, marked not frozen
NewInstance(klass, r) ==
    Append(r.heap, NewObj(klass, Put(r.vars, _FROZEN, BoolV(FALSE))))

\* _new_wrapper.new_method
new_method(h, fm, klass) == NewInstance(klass, SetDefaults(h, <<>>, fm[klass]))

\* Classes that _dataclass_transform wrapped when their __new__ was a
\* new_method already (getattr(klass, "__new__") finds the one of the
\* first decoration, or the one inherited from the decorated base):
\*   AA : treeclass(treeclass(AA)), the body of AB
\*   BA : a decorated subclass of AB that declares c = 3
Redecorated == {"AA", "BA"}
RedecoratedMaps ==
    [c \in Redecorated |->
        IF c = "AA" THEN _generate_field_map(<<>>, ClassBody("AB")).map
        ELSE _generate_field_map(<< _generate_field_map(<<>>, ClassBody("AB")).map,
                                    _generate_field_map(<<>>, ClassBody("AB")).map >>,
                                 << [name |-> "c", value |-> IntV(3)] >>).map]

\* _init_wrapper.init_method, before init_func and again before the
\* __post_init__ hook: getattr(self, _VARS)[_FROZEN] = False
InitEnter(h, o) == [h EXCEPT ![o].vars = Put(@, _FROZEN, BoolV(FALSE))]

\* _init_wrapper.init_method: the fields of the field map with no value
Uninitialized(h, fm, o) ==
    {n \in FieldNames(fm[h[o].cls]) : ~Has(h[o].vars, n)}

\* variant: the shadowing flag is left in the instance __dict__
InitExit_keeps_flag(h, fm, o) ==
    IF Uninitialized(h, fm, o) # {}
    THEN [heap |-> h, raised |-> "AttributeError"]
    ELSE [heap |-> h, raised |-> ""]

\* variant: no check for uninitialized fields
InitExit_unchecked(h, fm, o) ==
    [heap |-> [h EXCEPT ![o].vars = Del(@, _FROZEN)], raised |-> ""]

\* _init_wrapper.init_method, after init_func / the hook returned: raise on
\* an uninitialized field, else delete the shadowing flag
InitExit(h, fm, o) ==
    IF Uninitialized(h, fm, o) # {}
    THEN [heap |-> h, raised |-> "AttributeError"]
    ELSE [heap |-> [h EXCEPT ![o].vars = Del(@, _FROZEN)], raised |-> ""]

\* tree_decorator.py _patch_init_method: the generated __init__, a function
\* object whose defaults (held in its __dict__ here, by argument name) are
\* evaluated when its `def` runs, at class build: a default as it is, a
\* default factory by one call.  Only the fields with init=True are
\* arguments.  (tree_base.py imports the generator as _generate_init from a
\* tree_decorator.py that is not among the sources.)
InitFunction(r) == Append(r.heap, NewObj("__init__", r.vars))
_patch_init_method(h, fmc) ==
    InitFunction(SetDefaults(h, <<>>, SelectSeq(fmc, LAMBDA f : f.init)))

\* the generated __init__, one statement of the body: self.<name> = <name>
\* for an argument, self.<name> = default or default_factory() for a field
\* with init=False, nothing for a field with neither
Assigned(r, s) == [s EXCEPT !.calls = r.calls \o @]
InitStatement(r, o, args, f) ==
    IF f.init THEN Assigned(r, _setattr(r.heap, r.fmap, o, f.name, Get(args, f.name)))
    ELSE IF f.default # _MISSING
    THEN Assigned(r, _setattr(r.heap, r.fmap, o, f.name, f.default))
    ELSE IF f.default_factory # _MISSING
    THEN Assigned(r, _setattr(CallFactory(r.heap), r.fmap, o, f.name, RefV(Len(r.heap) + 1)))
    ELSE r

\* the body of the generated __init__: the statements in field order, left
\* at the first error
RECURSIVE InitBody(_, _, _, _)
InitBody(r, o, args, fmc) ==
    IF fmc = <<>> \/ r.raised # "" THEN r
    ELSE InitBody(InitStatement(r, o, args, Head(fmc)), o, args, Tail(fmc))

\* init_method around the generated __init__: the flag is deleted when every
\* field has a value (InitExit)
InitReturned(o, r) ==
    IF r.raised # "" THEN r
    ELSE [r EXCEPT !.heap = InitExit(r.heap, r.fmap, o).heap,
                   !.raised = InitExit(r.heap, r.fmap, o).raised]

\* klass(**passed) on the instance o that new_method made: Python binds the
\* arguments (TypeError for a name that is no argument and for an argument
\* without value), then the body runs
InitCall(h, fm, o, defaults, passed) ==
    IF \/ \E e \in {passed[j] : j \in 1..Len(passed)} :
              e.key \notin {f.name : f \in {g \in {fm[h[o].cls][j] : j \in 1..Len(fm[h[o].cls])} :
                                                g.init}}
       \/ \E f \in {fm[h[o].cls][j] : j \in 1..Len(fm[h[o].cls])} :
              f.init /\ ~Has(Update(defaults, passed), f.name)
    THEN [heap |-> h, fmap |-> fm, raised |-> "TypeError", calls |-> <<>>, field |-> ""]
    ELSE InitReturned(o, InitBody([heap |-> h, fmap |-> fm, raised |-> "", calls |-> <<>>,
                                   field |-> ""],
                                  o, Update(defaults, passed), fm[h[o].cls]))

-----------------------------------------------------------------------------
(* tree_base.py: the flatten / unflatten rules.                            *)

\* variant: the leaves are listed in the order of the instance __dict__
_tree_flatten_dict_order(h, fm, o) ==
    LET d == h[o].vars
        fmc == fm[h[o].cls]
        dyn == SelectSeq(d, LAMBDA e : e.key \in FieldNames(fmc))
    IN IF \E j \in 1..Len(fmc) : ~Has(d, fmc[j].name)
       THEN [raised |-> "KeyError", leaves |-> <<>>, keys |-> <<>>, static |-> <<>>]
       ELSE [raised |-> "",
             leaves |-> [j \in 1..Len(dyn) |-> dyn[j].val],
             keys |-> [j \in 1..Len(fmc) |-> fmc[j].name],
             static |-> SelectSeq(d, LAMBDA e : e.key \notin FieldNames(fmc))]

\* _tree_flatten: every key of the (class-level) field map is popped from a
\* copy of the instance __dict__ into `dynamic`; what is left is `static`.
\* static.pop(key) raises KeyError when the instance has no such attribute.
_tree_flatten(h, fm, o) ==
    LET d == h[o].vars
        fmc == fm[h[o].cls]
    IN IF \E j \in 1..Len(fmc) : ~Has(d, fmc[j].name)
       THEN [raised |-> "KeyError", leaves |-> <<>>, keys |-> <<>>, static |-> <<>>]
       ELSE [raised |-> "",
             leaves |-> [j \in 1..Len(fmc) |-> Get(d, fmc[j].name)],
             keys |-> [j \in 1..Len(fmc) |-> fmc[j].name],
             static |-> SelectSeq(d, LAMBDA e : e.key \notin FieldNames(fmc))]

-----------------------------------------------------------------------------
(* treeclass.py: the flatten / unflatten rules of the dataclasses-based    *)
(* release.                                                                *)

DataclassClasses == {"Test"}

\* treeclass.py NonDiffField: a field that is excluded from the leaves
NonDiffField(name, default) == [name |-> name, default |-> default, meta |-> {"nondiff"}]

\* tests/test_op.py class Test: a, b and name = field(nondiff=True)
TestFields == << Field("a", _MISSING), Field("b", _MISSING), NonDiffField("name", _MISSING) >>

\* Test(a, b, name): _new stores the instance's own __dataclass_fields__,
\* the generated __init__ assigns the fields in declaration order
TestObj(a, b, name) ==
    [cls |-> "Test",
     vars |-> << [key |-> "a", val |-> a], [key |-> "b", val |-> b],
                 [key |-> "name", val |-> name] >>,
     undecl |-> <<>>,
     fields |-> TestFields]

\* class _MetaDict(dict): the entries, and the attribute __dict__ of the
\* _MetaDict object itself, which nothing ever writes
_MetaDict(d, fields) == [items |-> d, fields |-> fields, vars |-> <<>>]

\* _MetaDict.__eq__ = lambda x, y: x.__dict__ == y.__dict__
_MetaDict_eq(x, y) == x.vars = y.vars

\* _flatten: the instance __dict__ goes to `static`, every field that is
\* not a NonDiffField is popped from it into `dynamic`
_flatten(h, o) ==
    LET d == h[o].vars
        dyn == SelectSeq(h[o].fields, LAMBDA f : "nondiff" \notin f.meta)
    IN IF \E j \in 1..Len(dyn) : ~Has(d, dyn[j].name)
       THEN [raised |-> "KeyError", leaves |-> <<>>, keys |-> <<>>, static |-> <<>>]
       ELSE [raised |-> "",
             leaves |-> [j \in 1..Len(dyn) |-> Get(d, dyn[j].name)],
             keys |-> [j \in 1..Len(dyn) |-> dyn[j].name],
             static |-> _MetaDict(SelectSeq(d, LAMBDA e : e.key \notin FieldNames(dyn)),
                                  h[o].fields)]

-----------------------------------------------------------------------------
(* misc.py / tree_util.py: the instances of the `__immutable_pytree__`     *)
(* release.  The class-level __dataclass_fields__ is fmap[class], the      *)
(* per-instance override table __undeclared_fields__ is heap[o].undecl, a  *)
(* dict from field name to Field.                                          *)
(*   L0 : a, b                                                             *)
(*   L1 : a, d (a field that may hold an L0), tag = static_field()         *)
(*   Conv : a_conv, b_conv, c (tests/test_op.py test_at_str_regex)         *)

PytreeClasses == {"L0", "L1", "Conv"}

FloatV(n) == [k |-> "float", i |-> n, s |-> <<>>]
\* an array of a floating-point dtype (ArrV is an array of an integer dtype)
FArrV(q) == [k |-> "farr", i |-> 0, s |-> q]
\* a plain function
FuncV == [k |-> "func", i |-> 0, s |-> <<>>]
\* a list of values
ListV(q) == [k |-> "list", i |-> 0, s |-> q]

\* misc.py static_field: field(metadata={"static": True})
static_field(name) == [name |-> name, default |-> _MISSING, meta |-> {"static"}]

\* the __dataclass_fields__ that dataclasses builds for the classes
DataclassFields(klass) ==
    IF klass = "L0" THEN << Field("a", _MISSING), Field("b", _MISSING) >>
    ELSE IF klass = "Conv"
    THEN << Field("a_conv", _MISSING), Field("b_conv", _MISSING), Field("c", _MISSING) >>
    ELSE << Field("a", _MISSING), Field("d", _MISSING), static_field("tag") >>

\* tree_util.py is_treeclass: hasattr(tree, "__immutable_pytree__")
is_treeclass(h, v) == IsRef(v) /\ h[v.i].cls \in PytreeClasses

\* a field map as a dict from field name to Field
FieldDict(fs) == [j \in 1..Len(fs) |-> [key |-> fs[j].name, val |-> fs[j]]]

\* tree_util.py _tree_fields: the class fields, overridden by the
\* per-instance table; the result is the dict's values, in order
_tree_fields(h, fm, o) ==
    LET m == IF Len(h[o].undecl) = 0 THEN FieldDict(fm[h[o].cls])
             ELSE Update(FieldDict(fm[h[o].cls]), h[o].undecl)
    IN [j \in 1..Len(m) |-> m[j].val]

\* class _fieldDict(dict): the entries (the override table apart from the
\* static attribute values) and the attribute __dict__ of the object
\* itself, which nothing ever writes
_fieldDict(items, undecl) == [items |-> items, undecl |-> undecl, vars |-> <<>>]

\* _fieldDict.__eq__: self.__dict__ == other.__dict__
_fieldDict_eq(x, y) == x.vars = y.vars

\* tree_util.py _tree_structure, the loop over the fields fs: the fields
\* whose (overridden) metadata says static go to `static`, beside the
\* override table; the others to `dynamic`.  getattr raises AttributeError
\* for a field with no value.
SplitFields(d, undecl, fs) ==
    IF \E j \in 1..Len(fs) : ~Has(d, fs[j].name)
    THEN [raised |-> "AttributeError", leaves |-> <<>>, keys |-> <<>>, static |-> <<>>]
    ELSE [raised |-> "",
          leaves |-> [j \in 1..Len(SelectSeq(fs, LAMBDA f : "static" \notin f.meta)) |->
                         Get(d, SelectSeq(fs, LAMBDA f : "static" \notin f.meta)[j].name)],
          keys |-> [j \in 1..Len(SelectSeq(fs, LAMBDA f : "static" \notin f.meta)) |->
                       SelectSeq(fs, LAMBDA f : "static" \notin f.meta)[j].name],
          static |-> _fieldDict(
                         [j \in 1..Len(SelectSeq(fs, LAMBDA f : "static" \in f.meta)) |->
                             [key |-> SelectSeq(fs, LAMBDA f : "static" \in f.meta)[j].name,
                              val |-> Get(d, SelectSeq(fs, LAMBDA f : "static" \in f.meta)[j].name)]],
                         undecl)]

\* tree_util.py _tree_structure: (dynamic, static) of the instance
_tree_structure(h, fm, o) == SplitFields(h[o].vars, h[o].undecl, _tree_fields(h, fm, o))

\* the flatten rule of this release: the dynamic values are the children,
\* the dynamic keys and the static part of _tree_structure the auxiliary
\* data; the children of a list are its elements
FlattenRule(h, fm, v) ==
    IF v.k = "list"
    THEN [raised |-> "", leaves |-> v.s, keys |-> <<>>, static |-> <<>>]
    ELSE _tree_structure(h, fm, v.i)

\* the unflatten rule of this release (the class methods are not part of
\* the sources at hand; from the specification, section 4.1): a new
\* instance whose __dict__ holds the zipped dynamic keys and children and
\* the static part, and whose override table is the one kept in the static
\* part
_pytree_unflatten(h, klass, keys, static, children) ==
    Append(h, [cls |-> klass,
               vars |-> Update([j \in 1..Len(keys) |-> [key |-> keys[j], val |-> children[j]]],
                               static.items),
               undecl |-> static.undecl,
               fields |-> <<>>])

\* jax.tree_util.tree_flatten as this release sees it: an instance is a
\* node whose children are flattened in turn, a list is a node whose
\* children are its elements, None is a node without children, anything
\* else is a leaf.  A treedef holds the node type ("*" for a leaf, "None",
\* "list" or the class), the auxiliary data and the children's treedefs.
FlatNode(node, f, c) ==
    IF c.raised # "" THEN [raised |-> c.raised, leaves |-> <<>>, treedef |-> <<>>]
    ELSE [raised |-> "", leaves |-> c.leaves,
          treedef |-> [node |-> node, keys |-> f.keys, static |-> f.static, kids |-> c.defs]]
FlatJoin(x, r) ==
    IF x.raised # "" THEN [raised |-> x.raised, leaves |-> <<>>, defs |-> <<>>]
    ELSE IF r.raised # "" THEN [raised |-> r.raised, leaves |-> <<>>, defs |-> <<>>]
    ELSE [raised |-> "", leaves |-> x.leaves \o r.leaves, defs |-> <<x.treedef>> \o r.defs]
RECURSIVE jtu_tree_flatten(_, _, _)
RECURSIVE jtu_flatten_children(_, _, _)
RECURSIVE jtu_flatten_node(_, _, _, _)
jtu_tree_flatten(h, fm, v) ==
    IF v.k = "none"
    THEN [raised |-> "", leaves |-> <<>>,
          treedef |-> [node |-> "None", keys |-> <<>>, static |-> <<>>, kids |-> <<>>]]
    ELSE IF ~IsRef(v) /\ v.k # "list"
    THEN [raised |-> "", leaves |-> <<v>>,
          treedef |-> [node |-> "*", keys |-> <<>>, static |-> <<>>, kids |-> <<>>]]
    ELSE jtu_flatten_node(h, fm, IF v.k = "list" THEN "list" ELSE h[v.i].cls,
                          FlattenRule(h, fm, v))
jtu_flatten_node(h, fm, node, f) ==
    IF f.raised # "" THEN [raised |-> f.raised, leaves |-> <<>>, treedef |-> <<>>]
    ELSE FlatNode(node, f, jtu_flatten_children(h, fm, f.leaves))
jtu_flatten_children(h, fm, vs) ==
    IF vs = <<>> THEN [raised |-> "", leaves |-> <<>>, defs |-> <<>>]
    ELSE FlatJoin(jtu_tree_flatten(h, fm, Head(vs)), jtu_flatten_children(h, fm, Tail(vs)))

\* jax.tree_util.tree_unflatten: children first, then the node's own rule;
\* a list node needs no allocation
UnflatNode(td, c) ==
    IF td.node = "list"
    THEN [raised |-> "", heap |-> c.heap, val |-> ListV(c.vals), rest |-> c.rest]
    ELSE [raised |-> "",
          heap |-> _pytree_unflatten(c.heap, td.node, td.keys, td.static, c.vals),
          val |-> RefV(Len(c.heap) + 1), rest |-> c.rest]
UnflatJoin(x, r) == [heap |-> r.heap, vals |-> <<x.val>> \o r.vals, rest |-> r.rest]
RECURSIVE jtu_tree_unflatten(_, _, _)
RECURSIVE jtu_unflatten_children(_, _, _)
RECURSIVE jtu_unflatten_rest(_, _)
jtu_tree_unflatten(h, td, leaves) ==
    IF td.node = "*"
    THEN [raised |-> "", heap |-> h, val |-> Head(leaves), rest |-> Tail(leaves)]
    ELSE IF td.node = "None" THEN [raised |-> "", heap |-> h, val |-> NoneV, rest |-> leaves]
    ELSE UnflatNode(td, jtu_unflatten_children(h, td.kids, leaves))
jtu_unflatten_children(h, tds, leaves) ==
    IF tds = <<>> THEN [heap |-> h, vals |-> <<>>, rest |-> leaves]
    ELSE jtu_unflatten_rest(jtu_tree_unflatten(h, Head(tds), leaves), Tail(tds))
jtu_unflatten_rest(x, tds) ==
    UnflatJoin(x, jtu_unflatten_children(x.heap, tds, x.rest))

\* tree_util.py tree_copy: tree_unflatten(*tree_flatten(tree)[::-1])
CopyOf(h, f) ==
    IF f.raised # "" THEN [raised |-> f.raised, heap |-> h, val |-> NoneV, rest |-> <<>>]
    ELSE jtu_tree_unflatten(h, f.treedef, f.leaves)
tree_copy(h, fm, o) == CopyOf(h, jtu_tree_flatten(h, fm, RefV(o)))

-----------------------------------------------------------------------------
(* jax.tree_util: the traversal that calls the rules at every registered   *)
(* node.                                                                   *)

\* a treedef: the node type ("*" for a leaf, "None" for None, else the
\* registered class), the node's auxiliary data and its children's treedefs
LeafDef == [node |-> "*", keys |-> <<>>, static |-> <<>>, kids |-> <<>>]
NoneDef == [node |-> "None", keys |-> <<>>, static |-> <<>>, kids |-> <<>>]

\* jax.tree_util.tree_flatten: an instance of a registered class is a node
\* whose children are flattened in turn, None is a node without children,
\* anything else is a leaf
RECURSIVE tree_flatten(_, _, _)
RECURSIVE FlattenChildren(_, _, _)
tree_flatten(h, fm, v) ==
    IF v.k = "none" THEN [raised |-> "", leaves |-> <<>>, treedef |-> NoneDef]
    ELSE IF ~IsRef(v) THEN [raised |-> "", leaves |-> <<v>>, treedef |-> LeafDef]
    ELSE LET f == IF h[v.i].cls \in DataclassClasses THEN _flatten(h, v.i)
                  ELSE _tree_flatten(h, fm, v.i)
             c == FlattenChildren(h, fm, f.leaves)
         IN IF f.raised # "" THEN [raised |-> f.raised, leaves |-> <<>>, treedef |-> LeafDef]
            ELSE IF c.raised # "" THEN [raised |-> c.raised, leaves |-> <<>>, treedef |-> LeafDef]
            ELSE [raised |-> "", leaves |-> c.leaves,
                  treedef |-> [node |-> h[v.i].cls, keys |-> f.keys,
                               static |-> f.static, kids |-> c.defs]]
FlattenChildren(h, fm, vs) ==
    IF vs = <<>> THEN [raised |-> "", leaves |-> <<>>, defs |-> <<>>]
    ELSE LET x == tree_flatten(h, fm, Head(vs))
             r == FlattenChildren(h, fm, Tail(vs))
         IN IF x.raised # "" THEN [raised |-> x.raised, leaves |-> <<>>, defs |-> <<>>]
            ELSE IF r.raised # "" THEN [raised |-> r.raised, leaves |-> <<>>, defs |-> <<>>]
            ELSE [raised |-> "", leaves |-> x.leaves \o r.leaves,
                  defs |-> <<x.treedef>> \o r.defs]

ZipDict(keys, vals) == [j \in 1..Len(keys) |-> [key |-> keys[j], val |-> vals[j]]]

\* variant: the instance comes from new_method instead of the wrapped __new__
_tree_unflatten_via_new_method(h, klass, keys, static, children) ==
    Append(h, NewObj(klass, Update(Update(Put(<<>>, _FROZEN, BoolV(FALSE)), static),
                                   ZipDict(keys, children))))

\* getattr(klass.__new__, _WRAPPED)(klass): the function that the last
\* _new_wrapper applied to the class wrapped.  For a class decorated once
\* whose bases are not decorated that is object.__new__, which gives an
\* empty instance; for a class in Redecorated it is the new_method of the
\* wrapping before.
WrappedNew(h, klass) ==
    IF klass \in Redecorated THEN new_method(h, RedecoratedMaps, klass)
    ELSE Append(h, NewObj(klass, <<>>))

\* getattr(tree, _VARS).update(treedef[1]), then .update(zip(treedef[0],
\* leaves)) on the instance that was made last
UpdateVars(h, static, items) ==
    [h EXCEPT ![Len(h)].vars = Update(Update(@, static), items)]

\* _tree_unflatten: the instance comes from the wrapped __new__; its
\* __dict__ is updated with the static part, then with the zipped dynamic
\* keys and leaves
_tree_unflatten(h, klass, keys, static, children) ==
    UpdateVars(WrappedNew(h, klass), static, ZipDict(keys, children))

\* treeclass.py _unflatten: object.__new__, then __dict__ is updated with
\* the zipped dynamic keys and leaves and with the static part
_unflatten(h, klass, keys, static, leaves) ==
    Append(h, [cls |-> klass,
               vars |-> Update(ZipDict(keys, leaves), static.items),
               undecl |-> <<>>,
               fields |-> static.fields])

\* jax.tree_util.tree_unflatten: children first, then the node's own rule
RECURSIVE tree_unflatten(_, _, _)
RECURSIVE UnflattenChildren(_, _, _)
tree_unflatten(h, td, leaves) ==
    IF td.node = "*" THEN [heap |-> h, val |-> Head(leaves), rest |-> Tail(leaves)]
    ELSE IF td.node = "None" THEN [heap |-> h, val |-> NoneV, rest |-> leaves]
    ELSE LET c == UnflattenChildren(h, td.kids, leaves)
             h1 == IF td.node \in DataclassClasses
                   THEN _unflatten(c.heap, td.node, td.keys, td.static, c.vals)
                   ELSE _tree_unflatten(c.heap, td.node, td.keys, td.static, c.vals)
         IN [heap |-> h1, val |-> RefV(Len(h1)), rest |-> c.rest]
UnflattenChildren(h, tds, leaves) ==
    IF tds = <<>> THEN [heap |-> h, vals |-> <<>>, rest |-> leaves]
    ELSE LET x == tree_unflatten(h, Head(tds), leaves)
             r == UnflattenChildren(x.heap, Tail(tds), x.rest)
         IN [heap |-> r.heap, vals |-> <<x.val>> \o r.vals, rest |-> r.rest]

\* variant: the method runs on the instance itself
_tree_copy_none(h, fm, o) == [raised |-> "", heap |-> h, val |-> RefV(o)]

\* tree_base.py _tree_copy: tree_unflatten(*tree_flatten(tree)[::-1])
_tree_copy(h, fm, o) ==
    LET f == tree_flatten(h, fm, RefV(o))
    IN IF f.raised # "" THEN [raised |-> f.raised, heap |-> h, val |-> NoneV]
       ELSE LET u == tree_unflatten(h, f.treedef, f.leaves)
            IN [raised |-> "", heap |-> u.heap, val |-> u.val]

-----------------------------------------------------------------------------
(* misc.py / tree_util.py: the non-differentiable-field filter.            *)

\* variant: a float is non-differentiable too
_is_nondiff_item_float(node) ==
    node.k \in {"int", "bool", "str", "float", "arr", "func"}

\* misc.py _is_nondiff._is_nondiff_item: an int, bool or str, an array whose
\* dtype is not a subdtype of jnp.inexact, or a callable that is no
\* treeclass (no class of the model defines __call__)
_is_nondiff_item(node) ==
    \/ node.k \in {"int", "bool", "str"}
    \/ node.k = "arr"
    \/ node.k = "func"

Elems(q) == {q[j] : j \in 1..Len(q)}

\* isinstance(item, collections.abc.Iterable)
Iterable(v) == v.k \in {"str", "list", "arr", "farr"}

\* misc.py _is_nondiff: jtu.tree_all(jtu.tree_map(_is_nondiff_item, item))
\* for an iterable item, _is_nondiff_item(item) for any other
_is_nondiff(h, fm, item) ==
    IF Iterable(item)
    THEN \A leaf \in Elems(jtu_tree_flatten(h, fm, item).leaves) : _is_nondiff_item(leaf)
    ELSE _is_nondiff_item(item)

\* misc.py _copy_field with field_aux_metadata: a new Field whose metadata
\* is {**field_item.metadata, **field_aux_metadata}
_copy_field(field_item, field_aux_metadata) ==
    [field_item EXCEPT !.meta = @ \cup field_aux_metadata]

\* tree_util.py is_frozen_field: field_item.metadata.get("frozen", False)
is_frozen_field(field_item) == "frozen" \in field_item.meta

\* misc._field(name=, type=, metadata=, repr=): a new Field with that name
\* and metadata and no default
_field(name, metadata) == [Field(name, _MISSING) EXCEPT !.meta = metadata]

\* tree_util.py tree_unfreeze.true_func: the entries of the table, all of
\* them or none: the condition of the comprehension tests field_item, the
\* field the traversal is at, for every entry
unfreeze_true_func(undecl, field_item) ==
    SelectSeq(undecl, LAMBDA e : ~is_frozen_field(field_item))

\* tree_util.py tree_freeze.true_func: the table extended by a new field
\* of that name with static and frozen set
freeze_true_func(undecl, field_item) ==
    Update(undecl, << [key |-> field_item.name,
                       val |-> _field(field_item.name, {"static", "frozen"})] >>)

\* variant: unfilter_nondiff.true_func empties the override table
true_func_clear(mode, undecl, field_item) ==
    IF mode = "unfilter" THEN <<>>
    ELSE IF mode = "freeze" THEN freeze_true_func(undecl, field_item)
    ELSE IF mode = "unfreeze" THEN unfreeze_true_func(undecl, field_item)
    ELSE Update(undecl, << [key |-> field_item.name,
                               val |-> _copy_field(field_item, {"static", "nondiff"})] >>)

\* filter_nondiff.true_func: the table extended by a copy of the field with
\* static and nondiff set; unfilter_nondiff.true_func: the entries of the
\* table whose metadata has no nondiff
true_func(mode, undecl, field_item) ==
    IF mode = "unfilter"
    THEN SelectSeq(undecl, LAMBDA e : "nondiff" \notin e.val.meta)
    ELSE IF mode = "freeze" THEN freeze_true_func(undecl, field_item)
    ELSE IF mode = "unfreeze" THEN unfreeze_true_func(undecl, field_item)
    ELSE Update(undecl, << [key |-> field_item.name,
                               val |-> _copy_field(field_item, {"static", "nondiff"})] >>)

\* filter_nondiff.false_func and tree_freeze.false_func keep the table,
\* unfilter_nondiff.false_func and tree_unfreeze.false_func are {}
false_func(mode, undecl, field_item) ==
    IF mode \in {"unfilter", "unfreeze"} THEN <<>> ELSE undecl

\* variant: the filter recurses into static fields too
is_leaf_never(mode, field_item) == FALSE

\* filter_nondiff.is_leaf: the field is static; the is_leaf of
\* unfilter_nondiff, tree_freeze and tree_unfreeze: False
is_leaf(mode, field_item) ==
    mode \notin {"unfilter", "freeze", "unfreeze"} /\ "static" \in field_item.meta

\* filter_nondiff (where=None).cond: _is_nondiff(node_item); the cond of
\* unfilter_nondiff, tree_freeze and tree_unfreeze: True
cond_func(mode, h, fm, node_item) ==
    IF mode \in {"unfilter", "freeze", "unfreeze"} THEN TRUE
    ELSE _is_nondiff(h, fm, node_item)

\* object.__setattr__(tree, attr_func(...), value): attr_func always names
\* "__undeclared_fields__"
SetUndeclared(h, o, value) == [h EXCEPT ![o].undecl = value]
\* tree_util.py _pytree_map._recurse_callable_mask: the loop over the fields
\* of `tree` (the list is taken once, before the loop).  CallableStep is the
\* loop body: a static field is skipped, a field holding a treeclass is
\* descended into, at any other field the override table of `tree` is
\* replaced.
RECURSIVE _recurse_callable_mask(_, _, _, _, _, _)
RECURSIVE CallableStep(_, _, _, _, _, _)
_recurse_callable_mask(h, fm, o, fs, mode, state) ==
    IF fs = <<>> THEN h
    ELSE _recurse_callable_mask(CallableStep(h, fm, o, Head(fs), mode, state),
                                fm, o, Tail(fs), mode, state)
CallableStep(h, fm, o, field_item, mode, state) ==
    LET node_item == Get(h[o].vars, field_item.name)
    IN IF is_leaf(mode, field_item) THEN h
       ELSE IF is_treeclass(h, node_item)
       THEN _recurse_callable_mask(h, fm, node_item.i, _tree_fields(h, fm, node_item.i),
                                   mode, cond_func(mode, h, fm, node_item) \/ state)
       ELSE SetUndeclared(h, o,
                          IF state \/ cond_func(mode, h, fm, node_item)
                          THEN true_func(mode, h[o].undecl, field_item)
                          ELSE false_func(mode, h[o].undecl, field_item))

\* zip(a, b): pairs up to the shorter length
Zip(a, b) ==
    [j \in 1..(IF Len(a) < Len(b) THEN Len(a) ELSE Len(b)) |-> <<a[j], b[j]>>]

\* tree_util.py _pytree_map._recurse_treeclass_mask: the same loop over
\* zip(_tree_fields(tree).values(), _tree_fields(cond).values()).
\* _tree_fields(cond) reads cond.__undeclared_fields__, which raises
\* AttributeError when cond is no treeclass; jnp.all(cond_item) is taken of
\* the attribute of cond at a field that holds no treeclass.  MaskStep is
\* the loop body, MaskLoop the loop, which an error leaves.
RECURSIVE _recurse_treeclass_mask(_, _, _, _)
RECURSIVE MaskLoop(_, _, _, _, _)
RECURSIVE MaskStep(_, _, _, _, _, _)
_recurse_treeclass_mask(h, fm, o, cond) ==
    IF ~is_treeclass(h, cond) THEN [heap |-> h, raised |-> "AttributeError"]
    ELSE MaskLoop([heap |-> h, raised |-> ""], fm, o, cond,
                  Zip(_tree_fields(h, fm, o), _tree_fields(h, fm, cond.i)))
MaskLoop(r, fm, o, cond, pairs) ==
    IF pairs = <<>> \/ r.raised # "" THEN r
    ELSE MaskLoop(MaskStep(r.heap, fm, o, cond, Head(pairs)[1], Head(pairs)[2]),
                  fm, o, cond, Tail(pairs))
MaskStep(h, fm, o, cond, field_item, cond_field) ==
    LET node_item == Get(h[o].vars, field_item.name)
        cond_item == Get(h[cond.i].vars, cond_field.name)
    IN IF is_leaf("mask", field_item) THEN [heap |-> h, raised |-> ""]
       ELSE IF is_treeclass(h, node_item)
       THEN _recurse_treeclass_mask(h, fm, node_item.i, cond_item)
       ELSE IF cond_item.k # "bool" THEN [heap |-> h, raised |-> "TypeError"]
       ELSE [heap |-> SetUndeclared(h, o,
                          IF cond_item.i = 1
                          THEN true_func("mask", h[o].undecl, field_item)
                          ELSE false_func("mask", h[o].undecl, field_item)),
             raised |-> ""]

\* tree_util.py _pytree_map._recurse: dispatched on cond, an instance of
\* type(tree) or a function; cp is the outcome of tree_copy(tree)
MaskResult(r, val) ==
    [heap |-> r.heap, raised |-> r.raised, val |-> IF r.raised = "" THEN val ELSE NoneV]
_recurse(cp, h, fm, cond, mode) ==
    IF cp.raised # "" THEN [heap |-> h, raised |-> cp.raised, val |-> NoneV]
    ELSE IF mode = "mask"
    THEN MaskResult(_recurse_treeclass_mask(cp.heap, fm, cp.val.i, cond), cp.val)
    ELSE [heap |-> _recurse_callable_mask(cp.heap, fm, cp.val.i,
                                          _tree_fields(cp.heap, fm, cp.val.i), mode, FALSE),
          raised |-> "", val |-> cp.val]

\* variant: the traversal works on the instance itself
_pytree_map_in_place(h, fm, o, cond, mode) ==
    _recurse([raised |-> "", heap |-> h, val |-> RefV(o), rest |-> <<>>], h, fm, cond, mode)

\* tree_util.py _pytree_map: _recurse(tree=tree_copy(tree), cond=cond, ...)
_pytree_map(h, fm, o, cond, mode) ==
    _recurse(tree_copy(h, fm, o), h, fm, cond, mode)

\* misc.py filter_nondiff: dispatched on the type of `where`
filter_nondiff(h, fm, o, where) ==
    IF where = NoneV THEN _pytree_map(h, fm, o, NoneV, "nondiff")
    ELSE IF IsRef(where) /\ h[where.i].cls = h[o].cls THEN _pytree_map(h, fm, o, where, "mask")
    ELSE [heap |-> h, raised |-> "TypeError", val |-> NoneV]

\* misc.py unfilter_nondiff
unfilter_nondiff(h, fm, o) == _pytree_map(h, fm, o, NoneV, "unfilter")

\* tree_util.py tree_freeze and tree_unfreeze
tree_freeze(h, fm, o) == _pytree_map(h, fm, o, NoneV, "freeze")
tree_unfreeze(h, fm, o) == _pytree_map(h, fm, o, NoneV, "unfreeze")

-----------------------------------------------------------------------------
(* tree_op.py: == and != of an instance against a field name or a          *)
(* metadata mapping.  The class of the inputs is the one of tests/         *)
(* test_op.py test_at_str_regex:                                           *)
(*   Conv : a_conv, b_conv, c                                              *)

\* a string with its text
TextV(t) == [k |-> "str", i |-> 0, s |-> <<t>>]
\* a dict whose keys are `tags`, each with the value True
DictV(tags) == [k |-> "dict", i |-> 0, s |-> <<tags>>]
\* the metadata of a dataclasses Field: a mappingproxy around such a dict
ProxyV(tags) == [k |-> "mappingproxy", i |-> 0, s |-> <<tags>>]
\* an array of dtype bool
BArrV(q) == [k |-> "barr", i |-> 0, s |-> q]

\* tree_util.py _node_true: an array of ones for an array, True for any
\* other node
_node_true(node) ==
    IF node.k \in {"arr", "farr", "barr"} THEN BArrV([j \in 1..Len(node.s) |-> 1])
    ELSE BoolV(TRUE)

\* tree_util.py _node_false
_node_false(node) ==
    IF node.k \in {"arr", "farr", "barr"} THEN BArrV([j \in 1..Len(node.s) |-> 0])
    ELSE BoolV(FALSE)

\* Python `rhs in lhs` for a tuple lhs: some element equals rhs
Contains(lhs, rhs) == lhs.k = "tuple" /\ \E j \in 1..Len(lhs.s) : lhs.s[j] = rhs

\* tree_op.py _eq: `rhs in lhs` for a str or dict rhs, op.eq for any other
\* (a mappingproxy is no dict; dict == mappingproxy compares the entries)
_eq(lhs, rhs) ==
    IF rhs.k \in {"str", "dict"} THEN Contains(lhs, rhs)
    ELSE lhs.i = rhs.i /\ lhs.s = rhs.s

\* tree_op.py _ne
_ne(lhs, rhs) ==
    IF rhs.k \in {"str", "dict"} THEN ~Contains(lhs, rhs)
    ELSE ~(lhs.i = rhs.i /\ lhs.s = rhs.s)

\* the function __eq__ / __ne__ is built from
CmpFunc(func, lhs, rhs) == IF func = "_eq" THEN _eq(lhs, rhs) ELSE _ne(lhs, rhs)

\* tree_util._named_leaves (imported by tree_op.py, not part of the sources
\* at hand; from the specification, section 2 item 4, named paths): for
\* every leaf, in flatten order, the tuple of the field names on the way to
\* it
RECURSIVE _named_leaves(_, _, _, _)
RECURSIVE NamedFields(_, _, _, _, _)
RECURSIVE NamedElems(_, _, _, _)
_named_leaves(h, fm, v, path) ==
    IF v.k = "none" THEN <<>>
    ELSE IF is_treeclass(h, v) THEN NamedFields(h, fm, path, _tree_structure(h, fm, v.i), 1)
    ELSE IF v.k = "list" THEN NamedElems(h, fm, v.s, path)
    ELSE <<TupV(path)>>
NamedFields(h, fm, path, f, j) ==
    IF j > Len(f.keys) THEN <<>>
    ELSE _named_leaves(h, fm, f.leaves[j], Append(path, TextV(f.keys[j])))
             \o NamedFields(h, fm, path, f, j + 1)
NamedElems(h, fm, vs, path) ==
    IF vs = <<>> THEN <<>>
    ELSE _named_leaves(h, fm, Head(vs), path) \o NamedElems(h, fm, Tail(vs), path)

\* _append_math_eq_ne, the str dispatch: the list of new leaves
MarkLeaves(func, where, leaves, names) ==
    [j \in 1..Len(leaves) |->
        IF CmpFunc(func, names[j], where) THEN _node_true(leaves[j]) ELSE _node_false(leaves[j])]

\* _append_math_eq_ne, the str dispatch: tree_unflatten(treedef, new leaves)
Unflattened(u) == [heap |-> u.heap, raised |-> "", val |-> u.val]
StrDispatch(h, f, names, func, where) ==
    IF f.raised # "" THEN [heap |-> h, raised |-> f.raised, val |-> NoneV]
    ELSE Unflattened(jtu_tree_unflatten(h, f.treedef, MarkLeaves(func, where, f.leaves, names)))

\* _append_math_eq_ne, the dict dispatch: _pytree_map with
\*   cond      : func(where, field_item.metadata)
\*   true_func : _node_true(node_item), false_func : _node_false(node_item)
\*   attr_func : field_item.name
\*   is_leaf   : the field is static
\* run by _recurse_callable_mask on the copy: a static field is skipped, a
\* field holding a treeclass is descended into with the state carried
\* down, any other field is set to the broadcast boolean
RECURSIVE MetaLoop(_, _, _, _, _, _, _)
RECURSIVE MetaStep(_, _, _, _, _, _, _, _)
MetaLoop(h, fm, o, fs, func, where, state) ==
    IF fs = <<>> THEN h
    ELSE MetaLoop(MetaStep(h, fm, o, Head(fs), Get(h[o].vars, Head(fs).name), func, where, state),
                  fm, o, Tail(fs), func, where, state)
MetaStep(h, fm, o, field_item, node_item, func, where, state) ==
    IF "static" \in field_item.meta THEN h
    ELSE IF is_treeclass(h, node_item)
    THEN MetaLoop(h, fm, node_item.i, _tree_fields(h, fm, node_item.i), func, where,
                  CmpFunc(func, where, ProxyV(field_item.meta)) \/ state)
    ELSE [h EXCEPT ![o].vars =
              Put(@, field_item.name,
                  IF state \/ CmpFunc(func, where, ProxyV(field_item.meta))
                  THEN _node_true(node_item) ELSE _node_false(node_item))]

DictDispatch(cp, h, fm, func, where) ==
    IF cp.raised # "" THEN [heap |-> h, raised |-> cp.raised, val |-> NoneV]
    ELSE [heap |-> MetaLoop(cp.heap, fm, cp.val.i, _tree_fields(cp.heap, fm, cp.val.i),
                            func, where, FALSE),
          raised |-> "", val |-> cp.val]

\* tree_op.py _append_math_eq_ne.wrapper: tree == rhs (func = _eq) and
\* tree != rhs (func = _ne), dispatched on the type of rhs
inner_wrapper(h, fm, o, func, rhs) ==
    IF rhs.k = "str"
    THEN StrDispatch(h, jtu_tree_flatten(h, fm, RefV(o)), _named_leaves(h, fm, RefV(o), <<>>),
                     func, rhs)
    ELSE IF rhs.k = "dict" THEN DictDispatch(tree_copy(h, fm, o), h, fm, func, rhs)
    ELSE [heap |-> h, raised |-> "NotImplementedError", val |-> NoneV]

-----------------------------------------------------------------------------

(* tree_base.py: tree equality.                                            *)

IsArray(v) == v.k = "arr"

\* Python == on two values that are not arrays: numbers and booleans
\* compare by value, anything else by kind and content
PyEq(a, b) ==
    IF a.k \in {"int", "bool"} /\ b.k \in {"int", "bool"} THEN a.i = b.i ELSE a = b

\* dict == dict: the same keys with equal values, whatever the order
DictEq(d1, d2) ==
    /\ KeySet(d1) = KeySet(d2)
    /\ \A key \in KeySet(d1) : PyEq(Get(d1, key), Get(d2, key))

\* the static parts of two nodes of one class, by the == of their type
StaticEq(klass, s1, s2) ==
    IF klass \in DataclassClasses THEN _MetaDict_eq(s1, s2) ELSE DictEq(s1, s2)

\* PyTreeDef ==: the same node types, equal auxiliary data (the keys view
\* and the static part a flatten rule returns) and equal children
RECURSIVE TreedefEq(_, _)
TreedefEq(t1, t2) ==
    /\ t1.node = t2.node
    /\ {t1.keys[j] : j \in 1..Len(t1.keys)} = {t2.keys[j] : j \in 1..Len(t2.keys)}
    /\ StaticEq(t1.node, t1.static, t2.static)
    /\ Len(t1.kids) = Len(t2.kids)
    /\ \A j \in 1..Len(t1.kids) : TreedefEq(t1.kids[j], t2.kids[j])

\* numpy.array_equal: the same shape and the same elements
array_equal(a, b) == a.s = b.s

IsNumber(v) == v.k \in {"int", "bool"}

\* bool(arr == x) for an array and a non-array: the comparison is
\* elementwise and its truth value is defined for one element only
ArrayEqScalar(arr, x) ==
    IF Len(arr.s) # 1 THEN "ValueError"
    ELSE IF IsNumber(x) /\ arr.s[1] = x.i THEN "True" ELSE "False"

\* `if lhs != rhs` for a non-array lhs
LeafNe(l, r) ==
    IF IsArray(r)
    THEN LET e == ArrayEqScalar(r, l)
         IN IF e = "True" THEN "False" ELSE IF e = "False" THEN "True" ELSE e
    ELSE IF PyEq(l, r) THEN "False" ELSE "True"

\* is_tree_equal, the loop over zip(lhs_leaves, rhs_leaves)
RECURSIVE LeavesEqual(_, _)
LeavesEqual(ls, rs) ==
    IF ls = <<>> \/ rs = <<>> THEN "True"
    ELSE LET l == Head(ls)
             r == Head(rs)
         IN IF IsArray(l)
            THEN IF IsArray(r)
                 THEN IF ~array_equal(l, r) THEN "False"
                      ELSE LeavesEqual(Tail(ls), Tail(rs))
                 ELSE "False"
            ELSE LET ne == LeafNe(l, r)
                 IN IF ne = "False" THEN LeavesEqual(Tail(ls), Tail(rs))
                    ELSE IF ne = "True" THEN "False" ELSE ne

\* is_tree_equal: "True", "False", or the error that leaves the function
is_tree_equal(h, fm, lhs, rhs) ==
    LET lf == tree_flatten(h, fm, lhs)
        rf == tree_flatten(h, fm, rhs)
    IN IF lf.raised # "" THEN lf.raised
       ELSE IF rf.raised # "" THEN rf.raised
       ELSE IF ~TreedefEq(lf.treedef, rf.treedef) THEN "False"
       ELSE LeavesEqual(lf.leaves, rf.leaves)

\* treeclass.py is_treeclass_equal.is_node_equal: two arrays by array_equal,
\* anything else by ==, whose result against an array is elementwise
is_node_equal(l, r) ==
    IF IsArray(l) /\ IsArray(r) THEN (IF array_equal(l, r) THEN "True" ELSE "False")
    ELSE IF IsArray(l) THEN ArrayEqScalar(l, r)
    ELSE IF IsArray(r) THEN ArrayEqScalar(r, l)
    ELSE IF PyEq(l, r) THEN "True" ELSE "False"

\* all([...]) over the node results, in order
RECURSIVE AllNodes(_, _)
AllNodes(ls, rs) ==
    IF ls = <<>> THEN "True"
    ELSE IF rs = <<>> THEN "IndexError"
    ELSE LET e == is_node_equal(Head(ls), Head(rs))
         IN IF e = "True" THEN AllNodes(Tail(ls), Tail(rs)) ELSE e

\* treeclass.py is_treeclass_equal
is_treeclass_equal(h, fm, lhs, rhs) ==
    LET lf == tree_flatten(h, fm, lhs)
        rf == tree_flatten(h, fm, rhs)
    IN IF lf.raised # "" THEN lf.raised
       ELSE IF rf.raised # "" THEN rf.raised
       ELSE IF ~TreedefEq(lf.treedef, rf.treedef) THEN "False"
       ELSE AllNodes(lf.leaves, rf.leaves)

-----------------------------------------------------------------------------
(* Leaf-wise operators.  Funcs are the functions the operators are built   *)
(* from: op.sub and op.eq take two arguments, op.neg one.                  *)

Funcs == {"sub", "eq", "neg"}
Arity(func) == IF func = "neg" THEN 1 ELSE 2

\* func(x)
Call1(func, x) ==
    IF Arity(func) # 1 \/ ~IsNumber(x) THEN [raised |-> "TypeError", val |-> NoneV]
    ELSE [raised |-> "", val |-> IntV(0 - x.i)]

\* tree_base.py _swop: lambda lhs, rhs: func(rhs, lhs); the swapped
\* function is named after the one it wraps
Swopped == [f \in {"swop_sub"} |-> "sub"]
_swop(func) == IF func = "sub" THEN "swop_sub" ELSE func

\* func(x, y) for a function of the operator module
OpCall(func, x, y) ==
    IF Arity(func) # 2 THEN [raised |-> "TypeError", val |-> NoneV]
    ELSE IF func = "eq" THEN [raised |-> "", val |-> BoolV(PyEq(x, y))]
    ELSE IF IsNumber(x) /\ IsNumber(y) THEN [raised |-> "", val |-> IntV(x.i - y.i)]
    ELSE [raised |-> "TypeError", val |-> NoneV]

\* func(x, y)
Call2(func, x, y) ==
    IF func \in DOMAIN Swopped THEN OpCall(Swopped[func], y, x) ELSE OpCall(func, x, y)

\* treedef.flatten_up_to(v): v must repeat the node types and the auxiliary
\* data of the treedef; what stands at a leaf position is taken whole
RECURSIVE flatten_up_to(_, _, _, _)
RECURSIVE UpToChildren(_, _, _, _)
flatten_up_to(h, fm, td, v) ==
    IF td.node = "*" THEN [raised |-> "", leaves |-> <<v>>]
    ELSE IF td.node = "None"
    THEN (IF v.k = "none" THEN [raised |-> "", leaves |-> <<>>]
          ELSE [raised |-> "ValueError", leaves |-> <<>>])
    ELSE IF ~IsRef(v) \/ h[v.i].cls # td.node THEN [raised |-> "ValueError", leaves |-> <<>>]
    ELSE LET f == IF td.node \in DataclassClasses THEN _flatten(h, v.i)
                  ELSE _tree_flatten(h, fm, v.i)
         IN IF f.raised # "" THEN [raised |-> f.raised, leaves |-> <<>>]
            ELSE IF \/ {f.keys[j] : j \in 1..Len(f.keys)} # {td.keys[j] : j \in 1..Len(td.keys)}
                    \/ ~StaticEq(td.node, td.static, f.static)
            THEN [raised |-> "ValueError", leaves |-> <<>>]
            ELSE UpToChildren(h, fm, td.kids, f.leaves)
UpToChildren(h, fm, tds, vs) ==
    IF tds = <<>> THEN [raised |-> "", leaves |-> <<>>]
    ELSE LET x == flatten_up_to(h, fm, Head(tds), Head(vs))
             r == UpToChildren(h, fm, Tail(tds), Tail(vs))
         IN IF x.raised # "" THEN x
            ELSE IF r.raised # "" THEN r
            ELSE [raised |-> "", leaves |-> x.leaves \o r.leaves]

\* the first error among the results of the leaf calls, "" for none
FirstRaised(rs) ==
    IF \A j \in 1..Len(rs) : rs[j].raised = "" THEN ""
    ELSE rs[CHOOSE j \in 1..Len(rs) :
                /\ rs[j].raised # ""
                /\ \A i \in 1..(j - 1) : rs[i].raised = ""].raised

\* jax.tree_util.tree_map(f, lhs, ...) for the three functions the
\* operators map: "pair" is func(x, y) over lhs and rhs, "bcast" is
\* lambda x: func(x, rhs), "unary" is func(x)
tree_map(h, fm, func, mode, lhs, rhs) ==
    LET f == tree_flatten(h, fm, lhs)
        g == IF mode = "pair" /\ f.raised = "" THEN flatten_up_to(h, fm, f.treedef, rhs)
             ELSE [raised |-> "", leaves |-> <<>>]
        rs == [j \in 1..Len(f.leaves) |->
                  IF mode = "pair" THEN Call2(func, f.leaves[j], g.leaves[j])
                  ELSE IF mode = "bcast" THEN Call2(func, f.leaves[j], rhs)
                  ELSE Call1(func, f.leaves[j])]
    IN IF f.raised # "" THEN [raised |-> f.raised, heap |-> h, val |-> NoneV]
       ELSE IF g.raised # "" THEN [raised |-> g.raised, heap |-> h, val |-> NoneV]
       ELSE IF FirstRaised(rs) # "" THEN [raised |-> FirstRaised(rs), heap |-> h, val |-> NoneV]
       ELSE LET u == tree_unflatten(h, f.treedef, [j \in 1..Len(rs) |-> rs[j].val])
            IN [raised |-> "", heap |-> u.heap, val |-> u.val]

\* isinstance(rhs, type(lhs))
IsInstanceOfTypeOf(h, rhs, lhs) ==
    IF IsRef(lhs) THEN IsRef(rhs) /\ h[rhs.i].cls = h[lhs.i].cls
    ELSE IF lhs.k = "int" THEN rhs.k \in {"int", "bool"}
    ELSE ~IsRef(rhs) /\ rhs.k = lhs.k

\* isinstance(rhs, (Tracer, jnp.ndarray, int, float, complex, bool, str))
ScalarKinds == {"arr", "int", "bool", "str"}

\* variant: no dispatch on the type of rhs, as tree_base.py _binary_leafwise
_dispatched_op_tree_map_untyped(h, fm, func, lhs, rhs) ==
    IF IsInstanceOfTypeOf(h, rhs, lhs) THEN tree_map(h, fm, func, "pair", lhs, rhs)
    ELSE tree_map(h, fm, func, "bcast", lhs, rhs)

\* tree_base.py _binary_leafwise: func over the leaves of lhs and rhs when
\* rhs is an instance of the class of lhs, else lambda x: func(x, rhs) over
\* the leaves of lhs
_binary_leafwise(h, fm, func, lhs, rhs) ==
    IF IsInstanceOfTypeOf(h, rhs, lhs) THEN tree_map(h, fm, func, "pair", lhs, rhs)
    ELSE tree_map(h, fm, func, "bcast", lhs, rhs)

\* treeclass.py _dispatched_op_tree_map
_dispatched_op_tree_map(h, fm, func, lhs, rhs) ==
    IF IsInstanceOfTypeOf(h, rhs, lhs) THEN tree_map(h, fm, func, "pair", lhs, rhs)
    ELSE IF rhs.k \in ScalarKinds THEN tree_map(h, fm, func, "bcast", lhs, rhs)
    ELSE IF rhs.k = "none" THEN tree_map(h, fm, func, "unary", lhs, rhs)
    ELSE [raised |-> "NotImplementedError", heap |-> h, val |-> NoneV]

-----------------------------------------------------------------------------
(* The `at` indexer (pytreeclass._src.tree_indexer, imported by            *)
(* tree_base.py and treeclass.py, is not part of the sources at hand).     *)
(* Modelled from the specification, section 4.4, on top of the flatten /   *)
(* unflatten rules above.  A key is a field name or "..." (every leaf).    *)

AtKeys == {"a", "b", "..."}

RECURSIVE NumLeaves(_)
RECURSIVE SumLeaves(_)
NumLeaves(td) ==
    IF td.node = "*" THEN 1 ELSE IF td.node = "None" THEN 0 ELSE SumLeaves(td.kids)
SumLeaves(tds) == IF tds = <<>> THEN 0 ELSE NumLeaves(Head(tds)) + SumLeaves(Tail(tds))

\* for every leaf of the instance, whether the key selects it: a field name
\* selects the leaves below that field, "..." selects all
RECURSIVE SelectMask(_, _, _)
SelectMask(keys, kids, key) ==
    IF kids = <<>> THEN <<>>
    ELSE [j \in 1..NumLeaves(Head(kids)) |-> key = "..." \/ Head(keys) = key]
         \o SelectMask(Tail(keys), Tail(kids), key)

\* x.at[key].set(value): a new instance, every selected leaf replaced
at_set(h, fm, x, key, value) ==
    LET f == tree_flatten(h, fm, RefV(x))
        m == SelectMask(f.treedef.keys, f.treedef.kids, key)
        u == tree_unflatten(h, f.treedef,
                            [j \in 1..Len(f.leaves) |-> IF m[j] THEN value ELSE f.leaves[j]])
    IN IF f.raised # "" THEN [raised |-> f.raised, heap |-> h, val |-> NoneV]
       ELSE [raised |-> "", heap |-> u.heap, val |-> u.val]

\* x.at[key].get(): a new instance, every unselected leaf replaced by None
at_get(h, fm, x, key) ==
    LET f == tree_flatten(h, fm, RefV(x))
        m == SelectMask(f.treedef.keys, f.treedef.kids, key)
        u == tree_unflatten(h, f.treedef,
                            [j \in 1..Len(f.leaves) |-> IF m[j] THEN f.leaves[j] ELSE NoneV])
    IN IF f.raised # "" THEN [raised |-> f.raised, heap |-> h, val |-> NoneV]
       ELSE [raised |-> "", heap |-> u.heap, val |-> u.val]

-----------------------------------------------------------------------------
(* The program state.                                                      *)
(*   heap  : the objects allocated so far                                  *)
(*   fmap  : the class-level field maps (class attribute _FIELD_MAP)       *)
(*   stk   : the active mutable scopes (initializer calls and methods      *)
(*           called through the indexer), innermost last; a frame holds    *)
(*           the instance, the phase ("init" / "post" / "method"), the     *)
(*           names that were assigned or deleted on the instance since     *)
(*           the scope began and, for a method, the instance the indexer   *)
(*           belongs to                                                    *)
(*   last  : the most recent operation, the instance it acted on, how it  *)
(*           ended and the instance it returned (0 for none); for a call   *)
(*           of a library function its name, argument and return value,    *)
(*           and the call that came before it                              *)
(*   done  : the instances whose construction returned to its caller       *)
(*   ended : the instances on which an initializer call has ended, by a    *)
(*           return or by an error                                         *)
(*   ops   : attribute statements run so far                               *)

Names == {"a", "b", "x"}
IntVals == {IntV(1)}

Frame(o, phase) == [obj |-> o, phase |-> phase, touched |-> {}, src |-> 0]
Top == stk[Len(stk)]
InScope == {stk[j].obj : j \in 1..Len(stk)}
Pop == SubSeq(stk, 1, Len(stk) - 1)

\* what a call leaves for the call that follows it
NoCall == [op |-> "none", obj |-> 0, raised |-> "", fn |-> "", arg |-> NoneV]
Summary(c) == [op |-> c.op, obj |-> c.obj, raised |-> c.raised, fn |-> c.fn, arg |-> c.arg]

Outcome(op, o, raised, touched) ==
    [op |-> op, obj |-> o, raised |-> raised, touched |-> touched, phase |-> "",
     res |-> 0, fn |-> "", arg |-> NoneV, ret |-> NoneV, prev |-> NoCall]

\* the objects reachable from value v through attributes
RECURSIVE Reach(_, _)
Reach(h, v) ==
    IF ~IsRef(v) THEN {}
    ELSE {v.i} \cup UNION {Reach(h, h[v.i].vars[j].val) : j \in 1..Len(h[v.i].vars)}

\* the values user code can assign to an attribute of o: a number, or a
\* finished instance that does not hold o (no reference cycles)
Assignable(o) ==
    IntVals \cup {RefV(p) : p \in {q \in done \ InScope : o \notin Reach(heap, RefV(q))}}

Init ==
    /\ heap = <<>>
    /\ fmap = [c \in Classes |-> _generate_field_map(<<>>, ClassBody(c)).map]
    /\ stk = <<>>
    /\ last = Outcome("none", 0, "", {})
    /\ done = {}
    /\ ended = {}
    /\ ops = 0

\* a statement on o is noted in every active initializer call of o
Step(o, key) ==
    stk' = [j \in 1..Len(stk) |->
               IF stk[j].obj = o THEN [stk[j] EXCEPT !.touched = @ \cup {key}]
               ELSE stk[j]]

\* klass(...): type.__call__ runs new_method, then enters init_method
Construct(klass) ==
    /\ Len(heap) < MaxObj
    /\ Len(stk) < MaxDepth
    /\ heap' = InitEnter(new_method(heap, fmap, klass), Len(heap) + 1)
    /\ stk' = Append(stk, Frame(Len(heap) + 1, "init"))
    /\ last' = Outcome("new", Len(heap) + 1, "", {})
    /\ UNCHANGED <<fmap, done, ended, ops>>

\* super().__init__(...) inside the initializer of the same instance: the
\* ancestor's initializer is wrapped by _init_wrapper too
SuperInit ==
    /\ stk # <<>>
    /\ Len(stk) < MaxDepth
    /\ Top.phase = "init"
    /\ heap' = InitEnter(heap, Top.obj)
    /\ stk' = Append(stk, [Frame(Top.obj, "init") EXCEPT !.touched = Top.touched])
    /\ last' = Outcome("super", Top.obj, "", {})
    /\ UNCHANGED <<fmap, done, ended, ops>>

\* o.key = value
SetAttr(o, key, value) ==
    /\ ops < MaxOps
    /\ Step(o, key)
    /\ LET r == _setattr(heap, fmap, o, key, value)
       IN /\ heap' = r.heap
          /\ fmap' = r.fmap
          /\ last' = Outcome("setattr", o, r.raised, {})
          /\ ops' = IF r.raised = "" THEN ops + 1 ELSE ops
    /\ UNCHANGED <<done, ended>>

\* del o.key
DelAttr(o, key) ==
    /\ ops < MaxOps
    /\ Step(o, key)
    /\ LET r == _delattr(heap, fmap, o, key)
       IN /\ heap' = r.heap
          /\ fmap' = r.fmap
          /\ last' = Outcome("delattr", o, r.raised, {})
          /\ ops' = IF r.raised = "" THEN ops + 1 ELSE ops
    /\ UNCHANGED <<done, ended>>

\* init_method after the body (init_func, or the hook) returned: the
\* completeness check, then the flag is deleted; on success the instance
\* goes back to the caller of the outermost initializer call
Finish ==
    LET o == Top.obj
        r == InitExit(heap, fmap, o)
    IN /\ heap' = r.heap
       /\ stk' = Pop
       /\ last' = [Outcome("init", o, r.raised, Top.touched) EXCEPT !.phase = Top.phase]
       /\ ended' = ended \cup {o}
       /\ done' = IF r.raised = "" /\ o \notin {Pop[j].obj : j \in 1..Len(Pop)}
                  THEN done \cup {o} ELSE done
       /\ UNCHANGED <<fmap, ops>>

\* init_func returns: a class with a __post_init__ hook is marked not frozen
\* again and the hook runs; otherwise init_method finishes
InitReturn ==
    /\ stk # <<>>
    /\ Top.phase = "init"
    /\ IF HasPostInit(heap[Top.obj].cls)
       THEN /\ heap' = InitEnter(heap, Top.obj)
            /\ stk' = [stk EXCEPT ![Len(stk)].phase = "post"]
            /\ last' = Outcome("post", Top.obj, "", {})
            /\ UNCHANGED <<fmap, done, ended, ops>>
       ELSE Finish

\* the __post_init__ hook returns
PostReturn ==
    /\ stk # <<>>
    /\ Top.phase = "post"
    /\ Finish

\* an error leaves the innermost body: init_method has no handler, nothing
\* after the call of init_func / the hook runs
Raise ==
    /\ stk # <<>>
    /\ stk' = Pop
    /\ last' = [Outcome(IF Top.phase = "method" THEN "call" ELSE "init",
                         IF Top.phase = "method" THEN Top.src ELSE Top.obj,
                         "Exception", Top.touched) EXCEPT !.phase = Top.phase]
    /\ ended' = ended \cup {Top.obj}
    /\ UNCHANGED <<heap, fmap, done, ops>>

\* x.at["method"](...), up to the call of the method (specification,
\* section 4.4): the key path is resolved on a copy of x that a mutable
\* scope is opened on
AtCall(x) ==
    /\ x \in done \ InScope
    /\ Len(stk) < MaxDepth
    /\ LET r == _tree_copy(heap, fmap, x)
       IN /\ Len(heap) <= MaxObj
          /\ Len(r.heap) <= MaxObj + MaxCopies
          /\ IF r.raised # ""
             THEN /\ heap' = heap
                  /\ stk' = stk
                  /\ last' = Outcome("call", x, r.raised, {})
             ELSE /\ heap' = InitEnter(r.heap, r.val.i)
                  /\ stk' = Append(stk, [Frame(r.val.i, "method") EXCEPT !.src = x])
                  /\ last' = [Outcome("enter", x, "", {}) EXCEPT !.res = r.val.i]
    /\ UNCHANGED <<fmap, done, ended, ops>>

\* the method returns: the scope is left, which freezes the copy again, and
\* the indexer returns the copy beside the method's return value
MethodReturn ==
    /\ stk # <<>>
    /\ Top.phase = "method"
    /\ heap' = [heap EXCEPT ![Top.obj].vars = Del(@, _FROZEN)]
    /\ stk' = Pop
    /\ last' = [Outcome("call", Top.src, "", Top.touched) EXCEPT !.res = Top.obj]
    /\ done' = done \cup {Top.obj}
    /\ ended' = ended \cup {Top.obj}
    /\ UNCHANGED <<fmap, ops>>

\* copy.copy(o)
Copy(o) ==
    /\ LET r == _tree_copy(heap, fmap, o)
       IN /\ Len(heap) <= MaxObj
          /\ Len(r.heap) <= MaxObj + MaxCopies
          /\ heap' = r.heap
          /\ last' = [Outcome("copy", o, r.raised, {}) EXCEPT
                          !.res = IF r.raised = "" THEN r.val.i ELSE 0]
    /\ UNCHANGED <<fmap, stk, done, ended, ops>>

Next ==
    \/ \E klass \in Classes : Construct(klass)
    \/ SuperInit
    \/ \E o \in Live, key \in Names : \E value \in Assignable(o) : SetAttr(o, key, value)
    \/ \E o \in Live, key \in Names : DelAttr(o, key)
    \/ InitReturn
    \/ PostReturn
    \/ Raise
    \/ \E o \in Live : Copy(o)
    \/ \E x \in Live : AtCall(x)
    \/ MethodReturn

Spec == Init /\ [][Next]_vars


-----------------------------------------------------------------------------
(* Library functions applied to finished instances.  The inputs are two    *)
(* instances of one class, built by the construction protocol above; a     *)
(* second call is made on the instance the first call returned.            *)

\* calls in a row
MaxCalls == 2

LeafVals == {IntV(1), IntV(2), ArrV(<<1>>), ArrV(<<1, 2>>)}
FieldMaps == [c \in Classes |-> _generate_field_map(<<>>, ClassBody(c)).map]

\* AB(a) with the body `self.a = a` and, for xs = <<v>>, `self.x = v`
MakeAB(h, a, xs) ==
    LET o == Len(h) + 1
        h0 == InitEnter(new_method(h, FieldMaps, "AB"), o)
        h1 == _setattr(h0, FieldMaps, o, "a", a).heap
        h2 == IF xs = <<>> THEN h1 ELSE _setattr(h1, FieldMaps, o, "x", xs[1]).heap
    IN InitExit(h2, FieldMaps, o).heap

InputHeaps ==
    {MakeAB(MakeAB(<<>>, a1, x1), a2, x2) :
         a1 \in LeafVals, a2 \in LeafVals, x1 \in {<<>>, <<IntV(1)>>},
         x2 \in {<<>>, <<IntV(1)>>}}
    \cup {MakeAB(MakeAB(<<>>, a1, <<>>), RefV(1), <<>>) : a1 \in LeafVals}
    \cup {<<TestObj(a1, IntV(2), StrV(n1)), TestObj(a2, IntV(2), StrV(n2))>> :
              a1 \in {IntV(1), IntV(2)}, a2 \in {IntV(1), IntV(2)},
              n1 \in 1..2, n2 \in 1..2}

InitFn ==
    /\ heap \in InputHeaps
    /\ fmap = FieldMaps
    /\ stk = <<>>
    /\ last = Outcome("none", 0, "", {})
    /\ done = 1..Len(heap)
    /\ ended = 1..Len(heap)
    /\ ops = 0

\* a first call takes any input, a second one the result of the first
Callable(x) == ops < MaxCalls /\ (ops = 0 \/ x = last.res)

Returned(op, x, r) ==
    [Outcome(op, x, r.raised, {}) EXCEPT !.res = IF IsRef(r.val) THEN r.val.i ELSE 0,
                                         !.prev = Summary(last)]

\* lhs == rhs by the equality function of the release the class belongs to
Equal(x, y) ==
    /\ Callable(x)
    /\ LET e == IF heap[x].cls \in DataclassClasses
                THEN is_treeclass_equal(heap, fmap, RefV(x), RefV(y))
                ELSE is_tree_equal(heap, fmap, RefV(x), RefV(y))
       IN last' = [Outcome("equal", x, IF e \in {"True", "False"} THEN "" ELSE e, {})
                      EXCEPT !.arg = RefV(y), !.prev = Summary(last),
                             !.ret = IF e \in {"True", "False"} THEN BoolV(e = "True")
                                     ELSE NoneV]
    /\ ops' = ops + 1
    /\ UNCHANGED <<heap, fmap, stk, done, ended>>

\* an operator method of the dataclasses-based release: _append_math_op
ApplyOp(func, x, rhs) ==
    /\ Callable(x)
    /\ heap[x].cls \in DataclassClasses
    /\ LET r == _dispatched_op_tree_map(heap, fmap, func, RefV(x), rhs)
       IN /\ heap' = r.heap
          /\ last' = [Returned("op", x, r) EXCEPT !.fn = func, !.arg = rhs]
    /\ ops' = ops + 1
    /\ UNCHANGED <<fmap, stk, done, ended>>

AtSet(x, key, value) ==
    /\ Callable(x)
    /\ LET r == at_set(heap, fmap, x, key, value)
       IN /\ heap' = r.heap
          /\ last' = [Returned("set", x, r) EXCEPT !.fn = key, !.arg = value]
    /\ ops' = ops + 1
    /\ UNCHANGED <<fmap, stk, done, ended>>

AtGet(x, key) ==
    /\ Callable(x)
    /\ LET r == at_get(heap, fmap, x, key)
       IN /\ heap' = r.heap
          /\ last' = [Returned("get", x, r) EXCEPT !.fn = key]
    /\ ops' = ops + 1
    /\ UNCHANGED <<fmap, stk, done, ended>>

Operands == {RefV(1), RefV(2), IntV(1), StrV(1), NoneV, TupV(<<1>>), ObjV}

NextFn ==
    \/ \E x \in Live, y \in Live : Equal(x, y)
    \/ \E func \in Funcs, x \in Live, rhs \in Operands : ApplyOp(func, x, rhs)
    \/ \E x \in Live, key \in AtKeys, value \in {IntV(0), IntV(7)} : AtSet(x, key, value)
    \/ \E x \in Live, key \in AtKeys : AtGet(x, key)

SpecFn == InitFn /\ [][NextFn]_vars

-----------------------------------------------------------------------------
(* Copies of instances of classes that were decorated once, decorated      *)
(* twice, or decorated as a subclass of a decorated class.                 *)

AllMaps == [c \in Classes \cup Redecorated |->
               IF c \in Redecorated THEN RedecoratedMaps[c] ELSE FieldMaps[c]]

\* klass(a) with the body `self.a = a`: every new_method and every
\* init_method that wraps the class's __new__ and __init__ runs; the ones
\* of the first decoration run inside the ones of the second
MakeInstance(h, klass, a) ==
    InitExit(_setattr(InitEnter(new_method(h, AllMaps, klass), Len(h) + 1),
                      AllMaps, Len(h) + 1, "a", a).heap,
             AllMaps, Len(h) + 1).heap

InitRedecorated ==
    /\ heap \in {MakeInstance(<<>>, klass, a) :
                     klass \in {"AB"} \cup Redecorated, a \in {IntV(1), IntV(2)}}
    /\ fmap = AllMaps
    /\ stk = <<>>
    /\ last = Outcome("none", 0, "", {})
    /\ done = 1..Len(heap)
    /\ ended = 1..Len(heap)
    /\ ops = 0

NextRedecorated ==
    \/ \E o \in Live : Copy(o)
    \/ \E o \in Live, key \in Names : \E value \in Assignable(o) : SetAttr(o, key, value)
    \/ \E o \in Live, key \in Names : DelAttr(o, key)

SpecRedecorated == InitRedecorated /\ [][NextRedecorated]_vars

-----------------------------------------------------------------------------
(* s - x with a number s on the left: int.__sub__(s, x) returns            *)
(* NotImplemented and Python calls type(x).__rsub__(x, s).                 *)

Scalars == {IntV(0), IntV(5)}

\* treeclass.py, tree_op.py: __rsub__ = _append_math_op(op.sub)
\* tree_base.py: __rsub__ = _binary_leafwise(_swop(op.sub))
__rsub__(h, fm, x, s) ==
    IF h[x].cls \in DataclassClasses THEN _dispatched_op_tree_map(h, fm, "sub", RefV(x), s)
    ELSE _binary_leafwise(h, fm, _swop("sub"), RefV(x), s)

\* the reflected method returned r
Reflected(x, s, r) ==
    /\ heap' = r.heap
    /\ last' = [Returned("rsub", x, r) EXCEPT !.arg = s]
    /\ ops' = ops + 1
    /\ UNCHANGED <<fmap, stk, done, ended>>

\* s - x
ReflectedSub(s, x) ==
    /\ Callable(x)
    /\ Reflected(x, s, __rsub__(heap, fmap, x, s))

NextRefl == \E s \in Scalars, x \in Live : ReflectedSub(s, x)

SpecRefl == InitFn /\ [][NextRefl]_vars

-----------------------------------------------------------------------------
(* The filter functions of the `__immutable_pytree__` release, applied to  *)
(* instances user code holds.                                              *)

\* an instance whose fields were assigned in declaration order
L0Obj(a, b) ==
    [cls |-> "L0", vars |-> << [key |-> "a", val |-> a], [key |-> "b", val |-> b] >>,
     undecl |-> <<>>, fields |-> <<>>]
L1Obj(a, d, tag) ==
    [cls |-> "L1",
     vars |-> << [key |-> "a", val |-> a], [key |-> "d", val |-> d],
                 [key |-> "tag", val |-> tag] >>,
     undecl |-> <<>>, fields |-> <<>>]

\* what filter_nondiff(L0(1, b)) returns: the override table marks a, and
\* marks b when b is an int
FilteredL0(b) ==
    [L0Obj(IntV(1), b) EXCEPT !.undecl =
        << [key |-> "a", val |-> _copy_field(Field("a", _MISSING), {"static", "nondiff"})] >>
        \o (IF b.k = "int"
            THEN << [key |-> "b",
                     val |-> _copy_field(Field("b", _MISSING), {"static", "nondiff"})] >>
            ELSE <<>>)]

\* what tree_freeze(L0(1, b)) returns: the override table marks both fields
\* static and frozen
FrozenL0(b) ==
    [L0Obj(IntV(1), b) EXCEPT !.undecl =
        << [key |-> "a", val |-> [Field("a", _MISSING) EXCEPT !.meta = {"static", "frozen"}]],
           [key |-> "b", val |-> [Field("b", _MISSING) EXCEPT !.meta = {"static", "frozen"}]] >>]

\* the values the fields of the inputs hold
ScalarVals == {IntV(1), FloatV(1)}
FieldVals ==
    ScalarVals \cup {BoolV(TRUE), StrV(1), FuncV, ArrV(<<1>>), FArrV(<<1>>),
                     ListV(<<IntV(1), IntV(2)>>), ListV(<<IntV(1), FloatV(1)>>),
                     ListV(<<NoneV>>), ListV(<<>>)}

\* L0(a, b) alone; L1(a, L0(..), 3); L1 whose static field holds an L0 that
\* came out of filter_nondiff; L1 whose field d is a list that holds such
\* an L0; an L0 that came out of tree_freeze
FilterInputs ==
    {<<L0Obj(a, b)>> : a \in FieldVals, b \in ScalarVals}
    \cup {<<L0Obj(a, b), L1Obj(a1, RefV(1), IntV(3))>> :
              a \in ScalarVals, b \in ScalarVals, a1 \in ScalarVals}
    \cup {<<FilteredL0(b), L1Obj(FloatV(1), d, RefV(1))>> :
              b \in ScalarVals, d \in ScalarVals}
    \cup {<<FilteredL0(b), L1Obj(FloatV(1), ListV(<<RefV(1)>>), IntV(3))>> :
              b \in ScalarVals}
    \cup {<<FrozenL0(b)>> : b \in ScalarVals}

InitFilter ==
    /\ heap \in FilterInputs
    /\ fmap = [c \in PytreeClasses |-> DataclassFields(c)]
    /\ stk = <<>>
    /\ last = Outcome("none", 0, "", {})
    /\ done = 1..Len(heap)
    /\ ended = {}
    /\ ops = 0

\* the masks user code builds for an instance of class klass: booleans at
\* the fields, and at field d of L1 a boolean or a mask of L0
Masks(klass) ==
    IF klass = "L0" THEN {<<L0Obj(BoolV(p), BoolV(q))>> : p \in BOOLEAN, q \in BOOLEAN}
    ELSE {<<L1Obj(BoolV(p), BoolV(q), BoolV(FALSE))>> : p \in BOOLEAN, q \in BOOLEAN}
         \cup {<<L0Obj(BoolV(p), BoolV(q)), L1Obj(BoolV(r), RefV(1), BoolV(FALSE))>> :
                   p \in BOOLEAN, q \in BOOLEAN, r \in BOOLEAN}

\* the objects of mask m placed behind the heap h: references move along
Shift(m, n) ==
    [j \in 1..Len(m) |->
        [m[j] EXCEPT !.vars = [e \in 1..Len(@) |->
            [@[e] EXCEPT !.val = IF IsRef(@) THEN RefV(@.i + n) ELSE @]]]]

\* the call op(x, arg) returns: r is the heap the function leaves behind,
\* the error it raised and the value it returned
Return(op, x, arg, r) ==
    /\ heap' = r.heap
    /\ last' = [Returned(op, x, r) EXCEPT !.arg = arg]
    /\ done' = done \cup (IF IsRef(r.val) THEN {r.val.i} ELSE {})
    /\ ops' = ops + 1
    /\ UNCHANGED <<fmap, stk, ended>>

\* filter_nondiff(x)
Filter(x) ==
    /\ Callable(x)
    /\ Return("filter", x, NoneV, filter_nondiff(heap, fmap, x, NoneV))

\* filter_nondiff(x, where=m) with a mask m the caller has just built
FilterMask(x, m) ==
    /\ Callable(x)
    /\ Return("filter", x, RefV(Len(heap) + Len(m)),
              filter_nondiff(heap \o Shift(m, Len(heap)), fmap, x, RefV(Len(heap) + Len(m))))

\* unfilter_nondiff(x)
Unfilter(x) ==
    /\ Callable(x)
    /\ Return("unfilter", x, NoneV, unfilter_nondiff(heap, fmap, x))

NextFilter ==
    \/ \E x \in done : Filter(x)
    \/ \E x \in done : \E m \in Masks(heap[x].cls) : FilterMask(x, m)
    \/ \E x \in done : Unfilter(x)

SpecFilter == InitFilter /\ [][NextFilter]_vars

-----------------------------------------------------------------------------

(* tree_freeze and tree_unfreeze of the `__immutable_pytree__` release,     *)
(* applied to instances user code holds, beside the filter functions.      *)

\* an instance whose initializer assigned an instance v to the name key,
\* which is no declared field: the descriptor of key is kept in the
\* instance's own table (specification, section 3, attribute assignment;
\* the _setattr of this release is not part of the sources at hand), which
\* here is __undeclared_fields__ (tree_util.py _tree_fields)
Registered(obj, key, v) ==
    [obj EXCEPT !.vars = Append(@, [key |-> key, val |-> v]),
                !.undecl = Append(@, [key |-> key, val |-> Field(key, _MISSING)])]

\* L0(a, b) alone; L1(a, L0(..), 3); L1 that holds an L0 that came out of
\* filter_nondiff; L0 whose initializer also stored an L0 under the
\* undeclared name k
FreezeInputs ==
    {<<L0Obj(a, b)>> : a \in ScalarVals, b \in ScalarVals}
    \cup {<<L0Obj(a, b), L1Obj(a1, RefV(1), IntV(3))>> :
              a \in ScalarVals, b \in ScalarVals, a1 \in ScalarVals}
    \cup {<<FilteredL0(b), L1Obj(a1, RefV(1), IntV(3))>> :
              b \in ScalarVals, a1 \in ScalarVals}
    \cup {<<L0Obj(a, b), Registered(L0Obj(a1, b1), "k", RefV(1))>> :
              a \in ScalarVals, b \in ScalarVals, a1 \in ScalarVals, b1 \in ScalarVals}

InitFreeze ==
    /\ heap \in FreezeInputs
    /\ fmap = [c \in PytreeClasses |-> DataclassFields(c)]
    /\ stk = <<>>
    /\ last = Outcome("none", 0, "", {})
    /\ done = 1..Len(heap)
    /\ ended = {}
    /\ ops = 0

\* tree_freeze(x)
Freeze(x) ==
    /\ Callable(x)
    /\ Return("freeze", x, NoneV, tree_freeze(heap, fmap, x))

\* tree_unfreeze(x)
Unfreeze(x) ==
    /\ Callable(x)
    /\ Return("unfreeze", x, NoneV, tree_unfreeze(heap, fmap, x))

NextFreeze ==
    \/ \E x \in done : Freeze(x)
    \/ \E x \in done : Unfreeze(x)
    \/ \E x \in done : Filter(x)
    \/ \E x \in done : Unfilter(x)

SpecFreeze == InitFreeze /\ [][NextFreeze]_vars

-----------------------------------------------------------------------------

(* Declaring a class and constructing its instances.                       *)
(*   class T:                                                              *)
(*       a: <annotation> = <a plain value, or field(...)>                  *)
(*       n: int = 0                                                        *)
(* decorated (field map, generated __init__), then T() / T(a=v).  The      *)
(* generated __init__ is the last object a successful class statement      *)
(* leaves in the heap; last.arg holds the value given to `a` in the class   *)
(* body or passed to the constructor (_MISSING for none), last.ret the      *)
(* calls of callbacks a constructor call made, last.fn the field an error   *)
(* message names.                                                          *)

MaxNew == 2

\* the factory `list`
ListFactory == [k |-> "type", i |-> 0, s |-> <<>>]

\* an empty list, dict or set literal
LiteralV(kind) == [k |-> kind, i |-> 0, s |-> <<>>]

\* the sequences of at most two callbacks
CallbackSeqs ==
    {<<>>} \cup {<<c>> : c \in CallbackFns} \cup {<<c, d>> : c \in CallbackFns, d \in CallbackFns}

\* what the class body gives attribute a: a plain value or the arguments of
\* a call of field()
AttrForms ==
    {[call |-> FALSE, value |-> v] :
         v \in {IntV(1), LiteralV("list"), LiteralV("dict"), LiteralV("set")}}
    \cup {[call |-> TRUE,
           value |-> FieldV([Field("", d) EXCEPT !.default_factory = f, !.init = i,
                                                 !.callbacks = c])] :
              d \in {_MISSING, IntV(1)}, f \in {_MISSING, ListFactory},
              i \in BOOLEAN, c \in CallbackSeqs}

InitDecl ==
    /\ heap = <<>>
    /\ fmap = [c \in {} |-> <<>>]
    /\ stk = <<>>
    /\ last = Outcome("none", 0, "", {})
    /\ done = {}
    /\ ended = {}
    /\ ops = 0

\* the decorator on the class: the field map, then the generated __init__
Decorate(form, m) ==
    /\ last' = [Outcome("class", 0, m.raised, {}) EXCEPT !.arg = form.value, !.fn = m.hint]
    /\ heap' = IF m.raised = "" THEN _patch_init_method(heap, m.map) ELSE heap
    /\ fmap' = IF m.raised = "" THEN [c \in {"T"} |-> m.map] ELSE fmap

\* the class body: the value of attribute a is evaluated first
ClassStatement(form, a) ==
    IF a.raised # ""
    THEN /\ last' = [Outcome("field", 0, a.raised, {}) EXCEPT !.arg = form.value]
         /\ UNCHANGED <<heap, fmap>>
    ELSE Decorate(form, _generate_field_map(<<>>, << [name |-> "a", value |-> a.val],
                                                     [name |-> "n", value |-> IntV(0)] >>))

\* the class statement
DefineClass(form) ==
    /\ last.op = "none"
    /\ ClassStatement(form,
                      IF form.call
                      THEN field(form.value.s[1].default, form.value.s[1].default_factory,
                                 form.value.s[1].init, form.value.s[1].callbacks)
                      ELSE [raised |-> "", val |-> form.value])
    /\ UNCHANGED <<stk, done, ended, ops>>

\* T(**passed) returned or raised; o is the instance new_method made
Constructed(o, passed, r) ==
    /\ heap' = r.heap
    /\ fmap' = r.fmap
    /\ last' = [Outcome("new", o, r.raised, {}) EXCEPT
                   !.arg = IF passed = <<>> THEN _MISSING ELSE passed[1].val,
                   !.ret = TupV(r.calls), !.fn = r.field,
                   !.res = IF r.raised = "" THEN o ELSE 0]
    /\ done' = IF r.raised = "" THEN done \cup {o} ELSE done
    /\ ended' = ended \cup {o}
    /\ ops' = ops + 1
    /\ UNCHANGED stk

\* T(**passed): __new__, then __init__ on the instance
Instantiate(passed, defaults, h) ==
    Constructed(Len(h), passed, InitCall(InitEnter(h, Len(h)), fmap, Len(h), defaults, passed))

New(passed) ==
    /\ "T" \in DOMAIN fmap
    /\ ops < MaxNew
    /\ Instantiate(passed,
                   heap[CHOOSE j \in 1..Len(heap) : heap[j].cls = "__init__"].vars,
                   new_method(heap, fmap, "T"))

NextDecl ==
    \/ \E form \in AttrForms : DefineClass(form)
    \/ \E passed \in {<<>>} \cup {<< [key |-> "a", val |-> v] >> :
                                     v \in {IntV(0), IntV(1), FloatV(1)}} : New(passed)

SpecDecl == InitDecl /\ [][NextDecl]_vars

-----------------------------------------------------------------------------

(* == and != against a field name or a metadata mapping, on instances of   *)
(* Conv that user code holds.  last.arg is the right-hand side.            *)

ConvObj(a, b, c) ==
    [cls |-> "Conv",
     vars |-> << [key |-> "a_conv", val |-> a], [key |-> "b_conv", val |-> b],
                 [key |-> "c", val |-> c] >>,
     undecl |-> <<>>, fields |-> <<>>]

\* the class with field(metadata=...) at its fields
ConvFields(ma, mb, mc) ==
    << [Field("a_conv", _MISSING) EXCEPT !.meta = ma],
       [Field("b_conv", _MISSING) EXCEPT !.meta = mb],
       [Field("c", _MISSING) EXCEPT !.meta = mc] >>

\* Conv(a, array, list) and Conv(a, array, L0(1, 1.0))
EqInputs ==
    {<<ConvObj(a, ArrV(<<1, 2>>), ListV(<<IntV(1), IntV(2)>>))>> : a \in {IntV(0), FloatV(1)}}
    \cup {<<L0Obj(IntV(1), FloatV(1)), ConvObj(a, ArrV(<<1, 2>>), RefV(1))>> :
              a \in {IntV(0), FloatV(1)}}

InitEq ==
    /\ heap \in EqInputs
    /\ \E ma \in {{}, {"unit"}, {"static"}} :
       \E mb \in {{}, {"unit", "doc"}} :
       \E mc \in {{"unit"}, {"unit", "doc"}} :
           fmap = [c \in PytreeClasses |->
                      IF c = "Conv" THEN ConvFields(ma, mb, mc) ELSE DataclassFields(c)]
    /\ stk = <<>>
    /\ last = Outcome("none", 0, "", {})
    /\ done = 1..Len(heap)
    /\ ended = {}
    /\ ops = 0

\* the right-hand sides: field names and patterns, metadata mappings
Wheres ==
    {TextV(p) : p \in {".*conv", "c", "a_conv", "a"}}
    \cup {DictV(m) : m \in {{}, {"unit"}, {"unit", "doc"}}}

\* x == where
Eq(x, where) ==
    /\ Callable(x)
    /\ Return("eq", x, where, inner_wrapper(heap, fmap, x, "_eq", where))

\* x != where
Ne(x, where) ==
    /\ Callable(x)
    /\ Return("ne", x, where, inner_wrapper(heap, fmap, x, "_ne", where))

NextEq ==
    \/ \E x \in done : \E where \in Wheres : Eq(x, where)
    \/ \E x \in done : \E where \in Wheres : Ne(x, where)

SpecEq == InitEq /\ [][NextEq]_vars

-----------------------------------------------------------------------------

(* Declaring a chain of decorated classes, each a subclass of the one      *)
(* before: A, B(A), C(B).  The class objects are heap[1], heap[2], heap[3]; *)
(* the __dict__ of a class object holds the annotated attributes of its    *)
(* body in declaration order.  The plain value a body gives its attributes *)
(* is the level of the class, so that a Field shows the class that         *)
(* declared it.                                                            *)

ChainNames == <<"A", "B", "C">>

\* the class bodies at a level: up to three annotated attributes with
\* names of their own
Bodies(level) ==
    {[j \in 1..Len(q) |-> [name |-> q[j], value |-> IntV(level)]] :
        q \in {r \in UNION {[1..n -> {"x", "y", "z"}] : n \in 1..3} :
                  \A i \in 1..Len(r) : \A j \in 1..Len(r) : i # j => r[i] # r[j]}}

ClassObj(body) ==
    [cls |-> "type",
     vars |-> [j \in 1..Len(body) |-> [key |-> body[j].name, val |-> body[j].value]],
     undecl |-> <<>>, fields |-> <<>>]

InitChain ==
    /\ heap = <<>>
    /\ fmap = [c \in {} |-> <<>>]
    /\ stk = <<>>
    /\ last = Outcome("none", 0, "", {})
    /\ done = {}
    /\ ended = {}
    /\ ops = 0

\* the field maps that the loop over reversed(cls.__mro__) finds when the
\* class at level n + 1 is decorated: those of the n ancestors, oldest
\* first, and at the class itself the one it inherits from its parent
MroMaps(n) ==
    IF n = 0 THEN <<>>
    ELSE [j \in 1..n |-> fmap[ChainNames[j]]] \o <<fmap[ChainNames[n]]>>

\* the decorator has built the field map m of the new class
Declared(name, body, m) ==
    /\ heap' = Append(heap, ClassObj(body))
    /\ fmap' = [c \in DOMAIN fmap \cup {name} |-> IF c = name THEN m.map ELSE fmap[c]]
    /\ last' = [Outcome("class", Len(heap) + 1, m.raised, {}) EXCEPT !.fn = name]
    /\ UNCHANGED <<stk, done, ended, ops>>

\* @treeclass class <next name>(<the class before>): body
DeclareClass(body) ==
    /\ Len(heap) < Len(ChainNames)
    /\ Declared(ChainNames[Len(heap) + 1], body,
                _generate_field_map(MroMaps(Len(heap)), body))

NextChain == \E body \in Bodies(Len(heap) + 1) : DeclareClass(body)

SpecChain == InitChain /\ [][NextChain]_vars

-----------------------------------------------------------------------------

(* Properties of the construction protocol and of flatten / unflatten.     *)

Frozen == {o \in Live : IsFrozen(heap, o)}

\* the instances user code holds after their construction returned
Built == done \ InScope

C2_Immutable ==
    \A x \in Built :
        \A key \in Names \cup {_FROZEN} :
            /\ \A value \in Assignable(x) \cup {BoolV(FALSE)} :
                   LET r == _setattr(heap, fmap, x, key, value)
                   IN /\ r.raised = "AttributeError"
                      /\ r.heap[x] = heap[x]
                      /\ tree_flatten(r.heap, r.fmap, RefV(x))
                             = tree_flatten(heap, fmap, RefV(x))
            /\ LET r == _delattr(heap, fmap, x, key)
               IN /\ r.raised = "AttributeError"
                  /\ r.heap[x] = heap[x]
                  /\ tree_flatten(r.heap, r.fmap, RefV(x))
                         = tree_flatten(heap, fmap, RefV(x))

\* an assignment to a finished instance has just been rejected
C2_Witness ==
    /\ last.op = "setattr"
    /\ last.obj \in Built
    /\ last.raised = "AttributeError"


\* C3: a construction whose initializer (and hook) returned runs the
\* initializer, then the __post_init__ hook when the class defines one, then
\* the completeness check, and freezes the instance only after the check
\* passed: it fails with the uninitialized-field error, and hands back no
\* instance, exactly when some field of the field map has no value, and on
\* success every field with a declared default that the initializer did not
\* touch holds that default (class AB, a: int, b: int = 2: never assigning
\* a fails; assigning only a succeeds with b = 2)
C3_Construction ==
    (last.op = "init" /\ last.raised # "Exception") =>
        LET o == last.obj
            c == heap[o].cls
            missing == {j \in 1..Len(fmap[c]) : ~Has(heap[o].vars, fmap[c][j].name)}
        IN /\ last.phase = (IF HasPostInit(c) THEN "post" ELSE "init")
           /\ (last.raised = "AttributeError") <=> (missing # {})
           /\ last.raised \in {"", "AttributeError"}
           /\ last.raised = "AttributeError" =>
                  /\ o \notin done
                  /\ ~IsFrozen(heap, o)
           /\ last.raised = "" =>
                  /\ IsFrozen(heap, o)
                  /\ o \in done \/ o \in InScope
                  /\ \A j \in 1..Len(_generate_field_map(<<>>, ClassBody(c)).map) :
                         LET f == _generate_field_map(<<>>, ClassBody(c)).map[j]
                         IN (f.default # _MISSING /\ f.name \notin last.touched)
                                => Get(heap[o].vars, f.name) = f.default

\* AB(a=1): only a was assigned, the construction succeeded and b is 2
C3_Witness ==
    /\ last.op = "init"
    /\ last.raised = ""
    /\ heap[last.obj].cls = "AB"
    /\ last.touched = {"a"}
    /\ last.obj \in Built
    /\ Get(heap[last.obj].vars, "b") = IntV(2)

\* C4: whenever a construction or a mutable-scoped call has ended, by a
\* return or by an error, its instance is no longer mutable: every later
\* direct assignment to it and every deletion on it raises the
\* immutability error
C4_ScopeEndFreezes ==
    \A o \in ended \ InScope :
        /\ IsFrozen(heap, o)
        /\ \A key \in Names :
               /\ \A value \in Assignable(o) :
                      _setattr(heap, fmap, o, key, value).raised = "AttributeError"
               /\ _delattr(heap, fmap, o, key).raised = "AttributeError"


-----------------------------------------------------------------------------
(* Properties of the library functions.                                    *)

\* the leaves below the attribute `name` of instance o
LeavesAt(h, fm, o, name) == tree_flatten(h, fm, Get(h[o].vars, name)).leaves

\* the names flatten lists as the dynamic attributes of o
DynamicNames(h, fm, o) ==
    LET td == tree_flatten(h, fm, RefV(o)).treedef
    IN {td.keys[j] : j \in 1..Len(td.keys)}

C6_AtSetGet ==
    (/\ last.op = "get" /\ last.raised = ""
     /\ last.prev.op = "set" /\ last.prev.raised = ""
     /\ last.prev.fn = last.fn) =>
        LET x == last.prev.obj
            s == last.obj
            g == last.res
            key == last.fn
            v == last.prev.arg
            fx == tree_flatten(heap, fmap, RefV(x))
            shape == flatten_up_to(heap, fmap, fx.treedef, RefV(g))
        IN /\ heap[g].cls = heap[x].cls
           /\ shape.raised = ""
           /\ Len(shape.leaves) = Len(fx.leaves)
           /\ tree_flatten(heap, fmap, RefV(s)).treedef.static = fx.treedef.static
           /\ \A n \in DynamicNames(heap, fmap, x) :
                  LET old == LeavesAt(heap, fmap, x, n)
                      mid == LeavesAt(heap, fmap, s, n)
                      got == flatten_up_to(heap, fmap,
                                 tree_flatten(heap, fmap, Get(heap[x].vars, n)).treedef,
                                 Get(heap[g].vars, n)).leaves
                  IN /\ Len(got) = Len(old)
                     /\ Len(mid) = Len(old)
                     /\ \A j \in 1..Len(old) :
                            IF key = "..." \/ key = n
                            THEN got[j] = v /\ mid[j] = v
                            ELSE got[j] = NoneV /\ mid[j] = old[j]

\* AB(a=1).at["a"].set(7).at["a"].get() is AB(a=7, b=None)
C6_Witness ==
    /\ last.op = "get"
    /\ last.raised = ""
    /\ last.fn = "a"
    /\ last.prev.op = "set"
    /\ last.prev.fn = "a"
    /\ last.prev.arg = IntV(7)
    /\ Get(heap[last.prev.obj].vars, "a") = IntV(1)
    /\ Get(heap[last.res].vars, "a") = IntV(7)
    /\ Get(heap[last.res].vars, "b") = NoneV


PairEqual(l, r) ==
    IF IsArray(l) /\ IsArray(r) THEN l.s = r.s
    ELSE IF IsArray(l) THEN IsNumber(r) /\ \A j \in 1..Len(l.s) : l.s[j] = r.i
    ELSE IF IsArray(r) THEN IsNumber(l) /\ \A j \in 1..Len(r.s) : r.s[j] = l.i
    ELSE PyEq(l, r)

\* C9: is_tree_equal returns True if and only if the descriptors of its two
\* arguments compare equal and every corresponding pair of leaves compares
\* equal, array leaves by full elementwise equality
C9_EqualIff ==
    (last.op = "equal" /\ heap[last.obj].cls \in Classes) =>
        LET fx == tree_flatten(heap, fmap, RefV(last.obj))
            fy == tree_flatten(heap, fmap, last.arg)
        IN (last.raised = "" /\ last.ret = BoolV(TRUE))
               <=> /\ TreedefEq(fx.treedef, fy.treedef)
                   /\ Len(fx.leaves) = Len(fy.leaves)
                   /\ \A j \in 1..Len(fx.leaves) : PairEqual(fx.leaves[j], fy.leaves[j])

\* C10: two instances of one class with pairwise equal leaves and a
\* different value in a static attribute have unequal descriptors and are
\* not equal
C10_StaticCompared ==
    (last.op = "equal" /\ IsRef(last.arg) /\ heap[last.arg.i].cls = heap[last.obj].cls) =>
        LET sx == SelectSeq(heap[last.obj].vars,
                            LAMBDA e : e.key \notin DynamicNames(heap, fmap, last.obj))
            sy == SelectSeq(heap[last.arg.i].vars,
                            LAMBDA e : e.key \notin DynamicNames(heap, fmap, last.arg.i))
            fx == tree_flatten(heap, fmap, RefV(last.obj))
            fy == tree_flatten(heap, fmap, last.arg)
        IN (fx.leaves = fy.leaves /\ ~DictEq(sx, sy)) =>
               /\ ~TreedefEq(fx.treedef, fy.treedef)
               /\ last.ret = BoolV(FALSE)

-----------------------------------------------------------------------------
(* Properties of the non-differentiable-field filter.                      *)

\* the leaf sequence of a value
Leaves(h, fm, v) == jtu_tree_flatten(h, fm, v).leaves

\* mask m has the structure of instance o: the same class, a boolean at
\* every field or, at a field that holds an instance, a mask of that
\* instance's class holding booleans
MaskFits(h, o, m) ==
    /\ h[m].cls = h[o].cls
    /\ \A e \in Elems(h[m].vars) :
           \/ e.val.k = "bool"
           \/ /\ IsRef(e.val) /\ IsRef(Get(h[o].vars, e.key))
              /\ h[e.val.i].cls = h[Get(h[o].vars, e.key).i].cls
              /\ \A e2 \in Elems(h[e.val.i].vars) : e2.val.k = "bool"

\* the leaves of the fields fs of instance o that mask m does not mark: a
\* True drops the field with everything below it, a nested mask applies to
\* the nested instance
RECURSIVE MaskedLeaves(_, _, _, _, _)
MaskedLeaves(h, fm, o, m, fs) ==
    IF fs = <<>> THEN <<>>
    ELSE (IF "static" \in Head(fs).meta \/ Get(h[m].vars, Head(fs).name) = BoolV(TRUE)
          THEN <<>>
          ELSE IF IsRef(Get(h[m].vars, Head(fs).name))
          THEN MaskedLeaves(h, fm, Get(h[o].vars, Head(fs).name).i,
                            Get(h[m].vars, Head(fs).name).i,
                            _tree_fields(h, fm, Get(h[o].vars, Head(fs).name).i))
          ELSE Leaves(h, fm, Get(h[o].vars, Head(fs).name)))
         \o MaskedLeaves(h, fm, o, m, Tail(fs))

\* the override table of instance o tags field `name` static and nondiff
Tagged(h, o, name) ==
    /\ Has(h[o].undecl, name)
    /\ {"static", "nondiff"} \subseteq Get(h[o].undecl, name).meta

\* C11: filter(x, where) with a mask of the structure of x returns an
\* instance whose leaves are those of the fields the mask holds False at,
\* in field order, and whose fields the mask holds True at carry an
\* override tagged static and nondiff; a True at a field that holds an
\* instance takes the whole instance out of the leaves
C11_MaskFilter ==
    (last.op = "filter" /\ IsRef(last.arg) /\ MaskFits(heap, last.obj, last.arg.i)) =>
        /\ last.raised = ""
        /\ Leaves(heap, fmap, RefV(last.res))
               = MaskedLeaves(heap, fmap, last.obj, last.arg.i,
                              _tree_fields(heap, fmap, last.obj))
        /\ \A f \in Elems(_tree_fields(heap, fmap, last.obj)) :
               ("static" \notin f.meta /\ Get(heap[last.arg.i].vars, f.name) = BoolV(TRUE))
                   => Tagged(heap, last.res, f.name)

\* a value the claim calls non-differentiable: a boolean, integer or string
\* scalar, an array of a non-floating element type, a function, or a
\* container whose every element is such a value
RECURSIVE NonDiffValue(_)
NonDiffValue(v) ==
    IF v.k = "list" THEN \A j \in 1..Len(v.s) : NonDiffValue(v.s[j])
    ELSE v.k \in {"bool", "int", "str", "arr", "func"}

\* the same, with a container judged by its leaves: every leaf below it,
\* through nested containers and instances, is such a value (None has no
\* leaf)
NonDiffLeaves(h, fm, v) ==
    IF v.k = "list" THEN \A leaf \in Elems(Leaves(h, fm, v)) : NonDiffValue(leaf)
    ELSE NonDiffValue(v)

\* instance r is instance o with exactly the fields in `marked` newly tagged:
\* every field of o that was dynamic and holds no instance is tagged in r if
\* and only if its name is in `marked`, and a float or a floating-point
\* array in such a field is a leaf of r
MarkedAs(h, fm, o, r, marked) ==
    \A f \in Elems(_tree_fields(h, fm, o)) :
        ("static" \notin f.meta /\ ~IsRef(Get(h[o].vars, f.name))) =>
            /\ Tagged(h, r, f.name) <=> f.name \in marked
            /\ Get(h[o].vars, f.name).k \in {"float", "farr"}
                   => Get(h[o].vars, f.name) \in Elems(Leaves(h, fm, RefV(r)))

\* the dynamic fields of o that hold an instance
NestedFields(h, fm, o) ==
    {f.name : f \in {g \in Elems(_tree_fields(h, fm, o)) :
                        "static" \notin g.meta /\ IsRef(Get(h[o].vars, g.name))}}

Held(h, o) ==
    {e.val.i : e \in {d \in Elems(h[o].vars) : IsRef(d.val)}}
    \cup {v.i : v \in {w \in UNION {Elems(e.val.s) :
                                       e \in {d \in Elems(h[o].vars) : d.val.k = "list"}} :
                          IsRef(w)}}

\* the claim as it is worded: after unfilter, no instance at any nesting
\* level, inside a container included, has an entry tagged nondiff
C13_EveryLevel ==
    (last.op = "unfilter" /\ last.raised = "") =>
        \A o \in {last.res} \cup Held(heap, last.res) :
            \A e \in Elems(heap[o].undecl) : "nondiff" \notin e.val.meta

\* the override table of o2 after the step is the table of o1 before it
\* without the entries tagged nondiff, and the fields of those entries are
\* dynamic fields of o2
Untagged(o1, o2) ==
    /\ heap'[o2].undecl = SelectSeq(heap[o1].undecl, LAMBDA e : "nondiff" \notin e.val.meta)
    /\ \A e \in Elems(heap[o1].undecl) :
           "nondiff" \in e.val.meta
               => e.key \in Elems(_tree_structure(heap', fmap', o2).keys)

\* C13: unfilter(x) removes from the override table of x and of every
\* instance that x holds in a field exactly the entries tagged nondiff,
\* restoring those fields to the dynamic fields, and leaves the other
\* entries in place with the same descriptor
C13_Unfilter ==
    [][(last'.op = "unfilter" /\ last'.raised = "") =>
           /\ Untagged(last'.obj, last'.res)
           /\ \A e \in Elems(heap[last'.obj].vars) :
                  IsRef(e.val) => Untagged(e.val.i, Get(heap'[last'.res].vars, e.key).i)]_vars

\* unfilter returned for an instance whose override table held entries and
\* now holds none
C13_Witness ==
    /\ last.op = "unfilter" /\ last.raised = ""
    /\ heap[last.obj].undecl # <<>>
    /\ heap[last.res].undecl = <<>>

\* no instance reached from o has an entry tagged nondiff
NoNondiff(h, o) ==
    \A n \in {o} \cup Held(h, o) :
        \A e \in Elems(h[n].undecl) : "nondiff" \notin e.val.meta

\* C14: for an instance x without entries tagged nondiff at any depth,
\* unfilter(filter(x)) has the leaf sequence of x: the same leaves in the
\* same order
C14_FilterUnfilter ==
    (/\ last.op = "unfilter" /\ last.raised = ""
     /\ last.prev.op = "filter" /\ last.prev.raised = ""
     /\ NoNondiff(heap, last.prev.obj)) =>
        Leaves(heap, fmap, RefV(last.res)) = Leaves(heap, fmap, RefV(last.prev.obj))

\* unfilter(filter(x)) returned for an x with an integer field, which filter
\* took out of the leaves
C14_Witness ==
    /\ last.op = "unfilter" /\ last.raised = ""
    /\ last.prev.op = "filter" /\ last.prev.raised = ""
    /\ NoNondiff(heap, last.prev.obj)
    /\ Leaves(heap, fmap, RefV(last.obj)) # Leaves(heap, fmap, RefV(last.prev.obj))
    /\ IntV(1) \in Elems(Leaves(heap, fmap, RefV(last.res)))

\* C15: filter and unfilter are out-of-place: when filter(x, ...) or
\* unfilter(x) has returned, x and every instance nested in it have the
\* override table and the attribute values they had before the call, x has
\* the leaf sequence it had, and the class-level field maps are unchanged
C15_OutOfPlace ==
    [][(last'.op \in {"filter", "unfilter"} /\ last'.raised = "") =>
           /\ \A o \in {last'.obj} \cup Held(heap, last'.obj) :
                  /\ heap'[o].undecl = heap[o].undecl
                  /\ heap'[o].vars = heap[o].vars
           /\ Leaves(heap', fmap', RefV(last'.obj)) = Leaves(heap, fmap, RefV(last'.obj))
           /\ fmap' = fmap]_vars

-----------------------------------------------------------------------------
(* Properties of field declarations, class build and callbacks.            *)

\* C16: a call of field() with both a default and a default factory raises
\* ValueError at the call, before any class is built, and no Field of a
\* field map has both set
C16_OneDefault ==
    /\ \A c \in DOMAIN fmap :
           \A f \in Elems(fmap[c]) : f.default = _MISSING \/ f.default_factory = _MISSING
    /\ (last.op \in {"field", "class"} /\ last.arg.k = "field") =>
           ((last.arg.s[1].default # _MISSING /\ last.arg.s[1].default_factory # _MISSING)
                <=> (last.op = "field" /\ last.raised = "ValueError"))
    /\ last.op = "field" => (heap = <<>> /\ DOMAIN fmap = {})

\* field(default=1, default_factory=list) raised
C16_Witness ==
    /\ last.op = "field" /\ last.raised = "ValueError"
    /\ last.arg.s[1].default = IntV(1)
    /\ last.arg.s[1].default_factory = ListFactory

\* C17: a class body that gives an annotated attribute a list, dict or set
\* as its plain value makes the class build raise TypeError with a message
\* that says to use default_factory; no field map holds such a default and
\* no instance of the class exists
C17_MutableDefault ==
    /\ \A c \in DOMAIN fmap :
           \A f \in Elems(fmap[c]) : f.default.k \notin {"list", "dict", "set"}
    /\ (last.op = "class" /\ last.arg.k \in {"list", "dict", "set"}) =>
           /\ last.raised = "TypeError"
           /\ last.fn = "default_factory"
           /\ heap = <<>>
           /\ DOMAIN fmap = {}
    /\ (last.op = "class" /\ last.raised # "") => last.arg.k \in {"list", "dict", "set"}

\* the class statement with a: dict = {} raised
C17_Witness ==
    /\ last.op = "class" /\ last.raised = "TypeError"
    /\ last.arg = LiteralV("dict")

\* the lists the factory made so far
FactoryMade(h) == {j \in 1..Len(h) : h[j].cls = "list"}

\* C18: a construction that does not pass a field declared with a default
\* factory calls the factory once, and the instance holds a value that no
\* instance constructed before holds
C18_FreshFactory ==
    [][(/\ last'.op = "new"
        /\ last'.arg = _MISSING
        /\ fmap["T"][1].default_factory # _MISSING) =>
           /\ Cardinality(FactoryMade(heap')) = Cardinality(FactoryMade(heap)) + 1
           /\ last'.raised = "" =>
                  /\ Get(heap'[last'.obj].vars, "a").i \in FactoryMade(heap')
                  /\ \A o \in done : Get(heap[o].vars, "a") # Get(heap'[last'.obj].vars, "a")]_vars

Raises(call) == CallCallback(call.k, call.s[1]).raised # ""

-----------------------------------------------------------------------------
(* Properties of == and != against a field name or a metadata mapping.     *)

\* the characters of the field names and patterns in use
Chars(t) ==
    CASE t = ".*conv" -> <<".", "*", "c", "o", "n", "v">>
      [] t = "a_conv" -> <<"a", "_", "c", "o", "n", "v">>
      [] t = "b_conv" -> <<"b", "_", "c", "o", "n", "v">>
      [] OTHER -> <<t>>

\* the whole name n matches the pattern p: a character stands for itself,
\* "." for any character, ".*" for any run of characters
RECURSIVE FullMatch(_, _)
FullMatch(p, n) ==
    IF p = <<>> THEN n = <<>>
    ELSE IF Len(p) >= 2 /\ p[1] = "." /\ p[2] = "*"
    THEN \E j \in 0..Len(n) : FullMatch(SubSeq(p, 3, Len(p)), SubSeq(n, j + 1, Len(n)))
    ELSE /\ n # <<>>
         /\ p[1] \in {".", n[1]}
         /\ FullMatch(Tail(p), Tail(n))

\* some field on the way to the leaf has a name that matches the pattern
UnderMatch(path, pattern) ==
    \E e \in Elems(path.s) : FullMatch(Chars(pattern.s[1]), Chars(e.s[1]))

\* the leaves and the structure of the instance o
LeavesOf(o) == jtu_tree_flatten(heap, fmap, RefV(o)).leaves
StructureOf(o) == jtu_tree_flatten(heap, fmap, RefV(o)).treedef

\* C21: x == pattern returns a tree of the structure of x that is True at
\* every leaf under a field whose name matches the pattern and False at
\* every other leaf, x != pattern the complement
C21_NamePattern ==
    (last.op \in {"eq", "ne"} /\ last.arg.k = "str") =>
        /\ last.raised = ""
        /\ StructureOf(last.res) = StructureOf(last.obj)
        /\ \A j \in 1..Len(LeavesOf(last.obj)) :
               LeavesOf(last.res)[j] =
                   IF UnderMatch(_named_leaves(heap, fmap, RefV(last.obj), <<>>)[j], last.arg)
                          = (last.op = "eq")
                   THEN _node_true(LeavesOf(last.obj)[j])
                   ELSE _node_false(LeavesOf(last.obj)[j])

\* C22: x == m for a metadata mapping m returns a tree that is True at
\* the fields whose metadata contains every entry of m, fields with more
\* entries included, and False at every other field (stated for the
\* fields that are not static and hold no nested instance)
C22_MetadataSuperset ==
    (last.op = "eq" /\ last.arg.k = "dict") =>
        /\ last.raised = ""
        /\ \A f \in Elems(_tree_fields(heap, fmap, last.obj)) :
               ("static" \notin f.meta /\ ~is_treeclass(heap, Get(heap[last.obj].vars, f.name)))
                   => Get(heap[last.res].vars, f.name) =
                          IF last.arg.s[1] \subseteq f.meta
                          THEN _node_true(Get(heap[last.obj].vars, f.name))
                          ELSE _node_false(Get(heap[last.obj].vars, f.name))

-----------------------------------------------------------------------------
(* Properties of the field map of a subclass.                              *)

\* the field map of the class at level j and of its parent
MapAt(j) == fmap[ChainNames[j]]
ParentMap(j) == IF j = 1 THEN <<>> ELSE fmap[ChainNames[j - 1]]

\* the attributes of the body at level j whose names no ancestor declared
NewInBody(j) == SelectSeq(heap[j].vars, LAMBDA e : e.key \notin FieldNames(ParentMap(j)))

\* C23: the field map of a class lists the fields of its ancestors
\* first, in the order of the parent's field map (and so oldest ancestor
\* first), then the new fields of the class in declaration order; a field
\* declared again takes the descriptor of the subclass at the position the
\* ancestor's field had
C23_FieldMapOrder ==
    \A j \in 1..Len(heap) :
        /\ Len(MapAt(j)) = Len(ParentMap(j)) + Len(NewInBody(j))
        /\ \A i \in 1..Len(ParentMap(j)) :
               MapAt(j)[i] = IF Has(heap[j].vars, ParentMap(j)[i].name)
                             THEN Field(ParentMap(j)[i].name,
                                        Get(heap[j].vars, ParentMap(j)[i].name))
                             ELSE ParentMap(j)[i]
        /\ \A i \in 1..Len(NewInBody(j)) :
               MapAt(j)[Len(ParentMap(j)) + i] = Field(NewInBody(j)[i].key, NewInBody(j)[i].val)
        /\ \A a \in 1..j :
               \A i \in 1..Len(MapAt(a)) : MapAt(j)[i].name = MapAt(a)[i].name

\* A declares x, y; B(A) declares y again and z; C(B) declares x again:
\* the field map of C is x (of C), y (of B), z (of B)
C23_Witness ==
    /\ Len(heap) = 3
    /\ Len(heap[1].vars) = 2 /\ heap[1].vars[1].key = "x" /\ heap[1].vars[2].key = "y"
    /\ Len(heap[2].vars) = 2 /\ heap[2].vars[1].key = "y" /\ heap[2].vars[2].key = "z"
    /\ Len(heap[3].vars) = 1 /\ heap[3].vars[1].key = "x"
    /\ fmap["C"] = << Field("x", IntV(3)), Field("y", IntV(2)), Field("z", IntV(2)) >>


\* C24: an assignment, inside a mutable scope, of a structured instance to
\* a name that is no declared field leaves the class-level field map as it
\* was and changes neither the field map nor the flatten result of any
\* other instance of the class
C24_InstanceLocal ==
    [][\A o \in Live, key \in Names : \A value \in Assignable(o) :
          ( /\ SetAttr(o, key, value)
            /\ last'.raised = ""
            /\ IsTree(value)
            /\ key \notin FieldNames(fmap[heap[o].cls]) )
          => /\ fmap' = fmap
             /\ \A p \in Live \ {o} :
                    _tree_flatten(heap', fmap', p) = _tree_flatten(heap, fmap, p)]_vars


\* the dynamic attributes of o in the order of the instance __dict__
BagOrder(o) == SelectSeq(heap[o].vars, LAMBDA e : e.key \in FieldNames(fmap[heap[o].cls]))

\* C25 as stated: flatten lists the leaves, and the descriptor the names,
\* in the insertion order of the instance's attribute bag
C25_BagOrder ==
    \A o \in Live :
        _tree_flatten(heap, fmap, o).raised = "" =>
            /\ _tree_flatten(heap, fmap, o).leaves =
                   [j \in 1..Len(BagOrder(o)) |-> BagOrder(o)[j].val]
            /\ _tree_flatten(heap, fmap, o).keys =
                   [j \in 1..Len(BagOrder(o)) |-> BagOrder(o)[j].key]

\* the instance _tree_unflatten makes of what _tree_flatten returned for o
Rebuilt(o, f) ==
    _tree_unflatten(heap, heap[o].cls, f.keys, f.static, f.leaves)[Len(heap) + 1]

\* C25: flatten lists the leaves in the order of the field map of the
\* class, whatever the order of the instance's attribute bag, and the
\* names recorded in the descriptor are in that same order, so unflatten
\* puts each leaf back on the name it came from
C25_FieldOrder ==
    \A o \in Live :
        _tree_flatten(heap, fmap, o).raised = "" =>
            /\ _tree_flatten(heap, fmap, o).keys =
                   [j \in 1..Len(fmap[heap[o].cls]) |-> fmap[heap[o].cls][j].name]
            /\ _tree_flatten(heap, fmap, o).leaves =
                   [j \in 1..Len(fmap[heap[o].cls]) |->
                       Get(heap[o].vars, fmap[heap[o].cls][j].name)]
            /\ KeySet(Rebuilt(o, _tree_flatten(heap, fmap, o)).vars) = KeySet(heap[o].vars)
            /\ \A n \in KeySet(heap[o].vars) :
                   Get(Rebuilt(o, _tree_flatten(heap, fmap, o)).vars, n) = Get(heap[o].vars, n)

\* a finished AB whose __dict__ holds b (the default, stored by new_method)
\* before a (assigned by __init__): flatten lists a = 1 before b = 2
C25_Witness ==
    \E o \in done :
        /\ Has(heap[o].vars, "a") /\ Has(heap[o].vars, "b")
        /\ Idx(heap[o].vars, "b") < Idx(heap[o].vars, "a")
        /\ _tree_flatten(heap, fmap, o).raised = ""
        /\ _tree_flatten(heap, fmap, o).keys = <<"a", "b">>
        /\ _tree_flatten(heap, fmap, o).leaves = <<IntV(1), IntV(2)>>

-----------------------------------------------------------------------------
(* Properties of tree_freeze and tree_unfreeze.                            *)

\* the override table of o2 after the step is the table of o1 before it
\* without the entries tagged frozen
Thawed(o1, o2) ==
    heap'[o2].undecl = SelectSeq(heap[o1].undecl, LAMBDA e : ~is_frozen_field(e.val))

\* C26: tree_unfreeze(x) removes from the override table of x and of every
\* instance that x holds in a field exactly the entries tagged frozen and
\* keeps every entry that is not tagged frozen in place, whatever mix of
\* entries the table holds
C26_ExactlyFrozen ==
    [][(last'.op = "unfreeze" /\ last'.raised = "") =>
           /\ Thawed(last'.obj, last'.res)
           /\ \A e \in Elems(heap[last'.obj].vars) :
                  IsRef(e.val) => Thawed(e.val.i, Get(heap'[last'.res].vars, e.key).i)]_vars

-----------------------------------------------------------------------------
(* Properties of the reflected operators and of tree equality.             *)

\* the leaves of instance o
LeavesNow(o) == tree_flatten(heap, fmap, RefV(o)).leaves

\* C27: s - x with a number s on the left and an instance x on the right
\* gives an instance whose every leaf is s - leaf, never leaf - s
C27_Reflected ==
    (last.op = "rsub" /\ last.raised = "") =>
        /\ Len(LeavesNow(last.res)) = Len(LeavesNow(last.obj))
        /\ \A j \in 1..Len(LeavesNow(last.obj)) :
               LeavesNow(last.res)[j] = IntV(last.arg.i - LeavesNow(last.obj)[j].i)


\* C28: is_tree_equal(a, b) returns what is_tree_equal(b, a) returns, also
\* when a leaf is an array on one side and a scalar on the other
C28_Symmetric ==
    (last.op = "equal" /\ heap[last.obj].cls \in Classes /\ heap[last.arg.i].cls \in Classes) =>
        is_tree_equal(heap, fmap, RefV(last.obj), last.arg)
            = is_tree_equal(heap, fmap, last.arg, RefV(last.obj))


-----------------------------------------------------------------------------
(* Properties of copies and of nested mutable scopes.                      *)

\* C29: the instance that unflatten makes of the flatten of a frozen
\* instance, as copy does, is frozen: an assignment to an attribute of it
\* raises, also for a class decorated twice and for a decorated subclass
\* of a decorated class
C29_CopyFrozen ==
    (last.op = "copy" /\ last.raised = "" /\ IsFrozen(heap, last.obj)) =>
        /\ IsFrozen(heap, last.res)
        /\ \A key \in Names :
               _setattr(heap, fmap, last.res, key, IntV(1)).raised = "AttributeError"


\* C30: while a mutable scope on an instance is active, entering and
\* leaving an inner scope on the same instance (an ancestor's wrapped
\* initializer called from the instance's initializer) does not end the
\* outer scope: the instance accepts assignment until the outer scope exits
C30_ScopesNest ==
    \A o \in InScope :
        /\ ~IsFrozen(heap, o)
        /\ \A key \in Names : _setattr(heap, fmap, o, key, IntV(1)).raised = ""

====
